---- MODULE Spec2Model ----
(***************************************************************************)
(* A model of the Kirkham grammar parser (tushortz/kirkham-parser).        *)
(*                                                                         *)
(* Text is a string; Ch(s, i) is its i-th character (1-based), a string of  *)
(* length one.  Model texts are ASCII: the typographic quotes and dashes    *)
(* of TOKEN_PATTERN are outside the input alphabet.  Offsets are Python     *)
(* offsets: 0-based, end exclusive.  Python's None is the string "None".    *)
(*                                                                         *)
(* The repository holds the pipeline twice: the package's modules          *)
(* (utils.py, classifier.py, syntactic.py, validator.py, models.py) and    *)
(* the single-file parser.py that kirkham.KirkhamParser is imported from.  *)
(* impl = "modular" is the first, impl = "monolith" the second.            *)
(***************************************************************************)
EXTENDS Integers, Sequences, FiniteSets, TLC

None == "None"

\* ------------------------------------------------------------------------
\* State
\* ------------------------------------------------------------------------
VARIABLES
  package,      \* the code that runs: "modular" (syntactic.py with validator.py)
                \* or "monolith" (kirkham.KirkhamParser, parser.py)
  parsers,      \* the constructed parsers: parsers[p] is the ParserConfig of parser p
  calls,        \* number of parse calls started so far
  self,         \* the parser that runs the current call
  sentence,     \* the sentence given to the current call
  pc,           \* the position of the current call
  word_tokens,  \* parse's local word_tokens
  result,       \* parse's local result; after the call, the value the caller holds
  vi,           \* position of validate in its list of checks
  exc,          \* the exception that ended the last operation, None if none did
  trace,        \* the stages the current call went through, in order
  history,      \* the outcome of every finished call, in order
  pool          \* the worker pool of parse_batch: the calls of the batch that run
                \* side by side, NoPool outside a parallel batch

vars == << package, parsers, calls, self, sentence, pc, word_tokens, result, vi, exc, trace, history, pool >>

\* ------------------------------------------------------------------------
\* Strings
\* ------------------------------------------------------------------------
\* s[i - 1]: the i-th character of s
Ch(s, i) == SubSeq(s, i, i)

\* [a-z] and [A-Z], in alphabetical order
LowerLetters == "abcdefghijklmnopqrstuvwxyz"

UpperLetters == "ABCDEFGHIJKLMNOPQRSTUVWXYZ"

\* [A-Za-z] of TOKEN_PATTERN
Letters == { Ch(LowerLetters, i) : i \in 1..26 } \cup { Ch(UpperLetters, i) : i \in 1..26 }

\* \d of TOKEN_PATTERN (ASCII)
Digits == { "0","1","2","3","4","5","6","7","8","9" }

\* ['\u2019] of TOKEN_PATTERN (ASCII)
Apostrophes == { "'" }

\* the third alternative of TOKEN_PATTERN (ASCII)
PunctChars ==
  { ".", ",", ";", ":", "!", "?", "(", ")", "[", "]", "{", "}", "\"", "'", "-" }

\* str.isupper() on one character
IsUpper(c) == \E i \in 1..26 : Ch(UpperLetters, i) = c

RECURSIVE Lower(_)
\* str.lower()
Lower(w) ==
  IF w = "" THEN ""
  ELSE LET c == Ch(w, 1)
       IN  (IF IsUpper(c)
            THEN Ch(LowerLetters, CHOOSE i \in 1..26 : Ch(UpperLetters, i) = c)
            ELSE c) \o Lower(SubSeq(w, 2, Len(w)))

\* str.endswith(suffix)
EndsWith(w, suf) ==
  /\ Len(w) >= Len(suf)
  /\ SubSeq(w, Len(w) - Len(suf) + 1, Len(w)) = suf

\* str.endswith((s1, s2, ...))
EndsWithAny(w, sufs) == \E suf \in sufs : EndsWith(w, suf)

\* w[a:b] for 0 <= a <= b <= len(w)
Slice(w, a, b) == SubSeq(w, a + 1, b)

\* w[:-n]
DropLast(w, n) == IF Len(w) <= n THEN "" ELSE SubSeq(w, 1, Len(w) - n)

\* ------------------------------------------------------------------------
\* Tokenizer (TextUtils.tokenize)
\* ------------------------------------------------------------------------
RECURSIVE TakeWhile(_, _, _)
\* the greedy run X+ / X* of the regular expression, from index i (1-based)
TakeWhile(s, i, class) ==
  IF i <= Len(s) /\ Ch(s, i) \in class
  THEN Ch(s, i) \o TakeWhile(s, i + 1, class)
  ELSE ""

RECURSIVE Groups(_, _, _)
\* (?:['\u2019][A-Za-z]+)* with sep = Apostrophes, (?:-[A-Za-z]+)* with sep = {"-"}
Groups(s, i, sep) ==
  IF i + 1 <= Len(s) /\ Ch(s, i) \in sep /\ Ch(s, i + 1) \in Letters
  THEN LET g == Ch(s, i) \o TakeWhile(s, i + 1, Letters)
       IN  g \o Groups(s, i + Len(g), sep)
  ELSE ""

\* first alternative: [A-Za-z]+(?:['\u2019][A-Za-z]+)*(?:-[A-Za-z]+)*
MatchWord(s, i) ==
  LET a == TakeWhile(s, i, Letters)
  IN  IF a = "" THEN ""
      ELSE LET b == Groups(s, i + Len(a), Apostrophes)
               c == Groups(s, i + Len(a) + Len(b), {"-"})
           IN  a \o b \o c

\* second alternative: \d+(?:\.\d+)?
MatchNumber(s, i) ==
  LET d == TakeWhile(s, i, Digits)
      j == i + Len(d)
  IN  IF d = "" THEN ""
      ELSE IF j + 1 <= Len(s) /\ Ch(s, j) = "." /\ Ch(s, j + 1) \in Digits
           THEN d \o "." \o TakeWhile(s, j + 1, Digits)
           ELSE d

\* third alternative: one punctuation, quote or dash character
MatchPunct(s, i) == IF Ch(s, i) \in PunctChars THEN Ch(s, i) ELSE ""

\* TOKEN_PATTERN tried at index i: the characters consumed, "" if no match
TOKEN_PATTERN(s, i) ==
  IF MatchWord(s, i) # "" THEN MatchWord(s, i)
  ELSE IF MatchNumber(s, i) # "" THEN MatchNumber(s, i)
  ELSE MatchPunct(s, i)

RECURSIVE finditer_overlapping(_, _)
\* finditer that resumes one character after the start of a match instead of at
\* its end, so that matches overlap
finditer_overlapping(s, i) ==
  IF i > Len(s) THEN << >>
  ELSE LET m == TOKEN_PATTERN(s, i)
       IN  IF m = "" THEN finditer_overlapping(s, i + 1)
           ELSE << [text |-> m, start |-> i - 1, end |-> i - 1 + Len(m)] >>
                \o finditer_overlapping(s, i + 1)

RECURSIVE finditer(_, _)
\* re.finditer from index i: the matches left to right, unmatched characters skipped
finditer(s, i) ==
  IF i > Len(s) THEN << >>
  ELSE LET m == TOKEN_PATTERN(s, i)
       IN  IF m = "" THEN finditer(s, i + 1)
           ELSE << [text |-> m, start |-> i - 1, end |-> i - 1 + Len(m)] >>
                \o finditer(s, i + Len(m))

\* tokenize with the offset of the last character as end offset
tokenize_inclusive_end(text) ==
  LET m == finditer(text, 1)
  IN  [ i \in 1..Len(m) |-> [ m[i] EXCEPT !.end = @ - 1 ] ]

\* TextUtils.tokenize: (token_text, start_offset, end_offset) triples
tokenize(text) == finditer(text, 1)

\* ------------------------------------------------------------------------
\* Word lists (TextUtils and Lexicon; DEFAULT_LEXICON holds the class lists)
\* ------------------------------------------------------------------------
\* TextUtils.IRREGULAR_PARTICIPLES
IRREGULAR_PARTICIPLES ==
  { "beaten", "been", "blown", "born", "borne", "bought", "broken",
    "brought", "built", "caught", "chosen", "done", "drawn", "driven",
    "eaten", "fallen", "felt", "flown", "forgotten", "fought", "found",
    "frozen", "given", "gone", "grown", "heard", "held", "hidden", "kept",
    "known", "left", "lost", "made", "meant", "met", "mown", "read", "risen",
    "said", "sat", "seen", "sent", "shown", "slept", "sold", "sought",
    "sown", "spent", "spoken", "stolen", "stood", "sworn", "taken", "taught",
    "thought", "thrown", "told", "torn", "won", "worn", "written" }

\* TextUtils.IRREGULAR_PLURALS
IRREGULAR_PLURALS ==
  { "aircraft", "alumni", "analyses", "appendices", "bacteria", "bases",
    "children", "crises", "criteria", "data", "deer", "diagnoses", "feet",
    "fish", "fungi", "geese", "hypotheses", "indices", "matrices", "men",
    "mice", "nuclei", "oases", "offspring", "oxen", "parentheses", "people",
    "phenomena", "series", "sheep", "species", "stimuli", "syllabi",
    "syntheses", "teeth", "theses", "vertices", "women" }

\* Lexicon.DEFAULT_ARTICLES
DEFAULT_ARTICLES ==
  { "a", "an", "the" }

\* Lexicon.PERSONAL_PRONOUNS
PERSONAL_PRONOUNS ==
  { "he", "her", "him", "i", "it", "me", "she", "thee", "them", "they",
    "thou", "us", "we", "ye", "you" }

\* Lexicon.POSSESSIVE_PRONOUNS
POSSESSIVE_PRONOUNS ==
  { "her", "hers", "his", "its", "mine", "my", "our", "ours", "their",
    "theirs", "thine", "thy", "your", "yours" }

\* Lexicon.DEMONSTRATIVE_PRONOUNS
DEMONSTRATIVE_PRONOUNS ==
  { "that", "these", "this", "those" }

\* Lexicon.RELATIVE_PRONOUNS
RELATIVE_PRONOUNS ==
  { "that", "what", "which", "who", "whom", "whose" }

\* Lexicon.INTERROGATIVE_PRONOUNS
INTERROGATIVE_PRONOUNS ==
  { "what", "which", "who", "whom", "whose" }

\* Lexicon.COORDINATING_CONJUNCTIONS
COORDINATING_CONJUNCTIONS ==
  { "and", "but", "for", "nor", "or", "so", "yet" }

\* Lexicon.SUBORDINATING_CONJUNCTIONS
SUBORDINATING_CONJUNCTIONS ==
  { "after", "although", "as", "because", "before", "if", "since", "than",
    "that", "though", "unless", "until", "when", "where", "whether", "while" }

\* Lexicon.PREPOSITIONS
PREPOSITIONS ==
  { "about", "above", "across", "after", "against", "among", "around", "as",
    "at", "before", "behind", "below", "beneath", "beside", "between",
    "beyond", "by", "during", "for", "from", "in", "into", "like", "near",
    "of", "on", "out", "over", "through", "to", "under", "with", "within",
    "without" }

\* Lexicon.AUXILIARY_BE
AUXILIARY_BE ==
  { "am", "are", "be", "been", "being", "is", "was", "were" }

\* Lexicon.AUXILIARY_HAVE
AUXILIARY_HAVE ==
  { "had", "has", "have", "having" }

\* Lexicon.AUXILIARY_DO
AUXILIARY_DO ==
  { "did", "do", "does" }

\* Lexicon.AUXILIARY_GET
AUXILIARY_GET ==
  { "get", "gets", "getting", "got", "gotten" }

\* Lexicon.MODAL_VERBS
MODAL_VERBS ==
  { "can", "could", "may", "might", "must", "ought", "shall", "should",
    "will", "would" }

\* Lexicon.COMMON_TRANSITIVE_VERBS
COMMON_TRANSITIVE_VERBS ==
  { "ask", "asked", "asks", "bought", "bring", "brings", "brought", "build",
    "builds", "built", "buy", "buys", "call", "called", "calls", "find",
    "finds", "found", "gave", "give", "given", "gives", "help", "helped",
    "helps", "knew", "know", "known", "knows", "love", "loved", "loves",
    "made", "make", "makes", "read", "reads", "saw", "see", "seen", "sees",
    "sell", "sells", "send", "sends", "sent", "show", "showed", "shown",
    "shows", "sold", "take", "taken", "takes", "tell", "tells", "told",
    "took", "use", "used", "uses", "write", "writes", "written", "wrote" }

\* Lexicon.COMMON_INTRANSITIVE_VERBS
COMMON_INTRANSITIVE_VERBS ==
  { "arrive", "arrived", "arrives", "came", "come", "comes", "die", "died",
    "dies", "go", "goes", "gone", "jump", "jumped", "jumps", "ran", "run",
    "runs", "sang", "sat", "sing", "sings", "sit", "sits", "sleep", "sleeps",
    "slept", "stand", "stands", "stood", "sung", "walk", "walked", "walks",
    "went" }

\* Lexicon.COMMON_NOUNS
COMMON_NOUNS ==
  { "bird", "book", "building", "cat", "child", "city", "college",
    "computer", "country", "day", "doctor", "dog", "door", "engineer",
    "evening", "eye", "face", "fox", "hand", "hardware", "head", "home",
    "house", "lion", "man", "month", "morning", "name", "night", "paper",
    "pen", "pencil", "people", "person", "place", "room", "school",
    "software", "state", "student", "teacher", "thing", "tiger", "time",
    "town", "university", "week", "woman", "world", "year" }

\* Lexicon.COMMON_ADJECTIVES
COMMON_ADJECTIVES ==
  { "angry", "bad", "beautiful", "big", "black", "blue", "boring", "brown",
    "cold", "cool", "difficult", "easy", "fast", "glad", "good", "green",
    "handsome", "happy", "hot", "important", "impossible", "interesting",
    "large", "lazy", "little", "long", "necessary", "new", "old", "possible",
    "pretty", "quick", "red", "sad", "short", "slow", "small", "ugly",
    "warm", "white", "yellow", "young" }

\* Lexicon.INTERJECTIONS
INTERJECTIONS ==
  { "ah", "alas", "hello", "hey", "hurray", "oh", "ouch", "wow" }

\* Lexicon.ADVERBS
ADVERBS ==
  { "always", "badly", "here", "never", "now", "often", "quickly", "quite",
    "rather", "slowly", "sometimes", "then", "there", "today", "tomorrow",
    "very", "well", "yesterday" }

\* ------------------------------------------------------------------------
\* Morphology helpers (TextUtils)
\* ------------------------------------------------------------------------
\* dict.get(k): the value under k, None when the key is missing
Get(f, k) == IF k \in DOMAIN f THEN f[k] ELSE None

RECURSIVE Strip(_, _)
\* str.strip(chars)
Strip(w, chars) ==
  IF w # "" /\ Ch(w, 1) \in chars THEN Strip(SubSeq(w, 2, Len(w)), chars)
  ELSE IF w # "" /\ Ch(w, Len(w)) \in chars THEN Strip(DropLast(w, 1), chars)
  ELSE w

\* TextUtils.strip_possessive: <<base_word, is_possessive>>
strip_possessive(word) ==
  IF EndsWith(word, "'s") THEN << DropLast(word, 2), TRUE >>
  ELSE IF EndsWith(word, "'") THEN << DropLast(word, 1), TRUE >>
  ELSE << word, FALSE >>

\* TextUtils.is_capitalized: word[0].isupper() and word[1:].islower()
is_capitalized(word) ==
  /\ word # ""
  /\ IsUpper(Ch(word, 1))
  /\ \E i \in 2..Len(word) : Ch(word, i) \in Letters
  /\ \A i \in 2..Len(word) : ~IsUpper(Ch(word, i))

\* TextUtils.is_plural_noun
is_plural_noun(word) ==
  IF EndsWithAny(word, {"'s", "s'"}) THEN FALSE
  ELSE LET w0 == Strip(Lower(word), {"'"})
           w  == IF EndsWith(w0, "'s") THEN DropLast(w0, 2)
                 ELSE IF EndsWith(w0, "s'") THEN DropLast(w0, 1)
                 ELSE w0
       IN  IF w \in IRREGULAR_PLURALS THEN TRUE
           ELSE IF EndsWithAny(w, {"ss", "us", "is"}) THEN FALSE
           ELSE EndsWith(w, "s")

\* TextUtils.is_past_participle
is_past_participle(word) ==
  Lower(word) \in IRREGULAR_PARTICIPLES \/ EndsWith(Lower(word), "ed")

\* TextUtils.is_present_participle
is_present_participle(word) == EndsWith(Lower(word), "ing")

\* TextUtils.ADJECTIVE_SUFFIX_PATTERN: the suffixes of the alternation;
\* the copy in parser.py has "ary" too
ADJECTIVE_SUFFIX_PATTERN(impl) ==
  { "ous", "ive", "ful", "less", "al", "able", "ible", "ic", "ish", "ent", "ant" }
  \cup (IF impl = "monolith" THEN { "ary" } ELSE { })

\* ------------------------------------------------------------------------
\* Part-of-speech classifier (PartOfSpeechClassifier)
\* ------------------------------------------------------------------------
\* Token(...): the fields not passed keep their defaults (None, empty features)
Token(text, lemma, pos, start, end, attrs) ==
  [ text |-> text, lemma |-> lemma, pos |-> pos, start |-> start, end |-> end,
    case |-> Get(attrs, "case"), gender |-> Get(attrs, "gender"),
    number |-> Get(attrs, "number"), person |-> Get(attrs, "person"),
    features |-> IF "features" \in DOMAIN attrs THEN attrs.features ELSE << >> ]

\* a verb test that looks at the verb suffixes before the noun and adjective
\* lists
is_verb_suffix_first(lemma) ==
  IF lemma \in {"has", "does"} THEN TRUE
  ELSE IF lemma \in AUXILIARY_BE \cup AUXILIARY_HAVE \cup AUXILIARY_DO \cup AUXILIARY_GET
                    \cup MODAL_VERBS \cup COMMON_TRANSITIVE_VERBS
                    \cup COMMON_INTRANSITIVE_VERBS THEN TRUE
  ELSE IF EndsWithAny(lemma, {"ed", "ing"}) /\ Len(lemma) > 3 THEN TRUE
  ELSE IF lemma \in COMMON_NOUNS \cup COMMON_ADJECTIVES THEN FALSE
  ELSE /\ EndsWith(lemma, "s")
       /\ ~EndsWithAny(lemma, {"ss", "us", "is"})
       /\ DropLast(lemma, 1) \in COMMON_TRANSITIVE_VERBS \cup COMMON_INTRANSITIVE_VERBS

\* PartOfSpeechClassifier._is_verb
is_verb(lemma) ==
  IF lemma \in {"has", "does"} THEN TRUE
  ELSE IF lemma \in AUXILIARY_BE \cup AUXILIARY_HAVE \cup AUXILIARY_DO \cup AUXILIARY_GET
                    \cup MODAL_VERBS \cup COMMON_TRANSITIVE_VERBS
                    \cup COMMON_INTRANSITIVE_VERBS THEN TRUE
  ELSE IF lemma \in COMMON_NOUNS \cup COMMON_ADJECTIVES THEN FALSE
  ELSE IF EndsWithAny(lemma, {"ed", "ing"}) /\ Len(lemma) > 3 THEN TRUE
  ELSE /\ EndsWith(lemma, "s")
       /\ ~EndsWithAny(lemma, {"ss", "us", "is"})
       /\ DropLast(lemma, 1) \in COMMON_TRANSITIVE_VERBS \cup COMMON_INTRANSITIVE_VERBS

\* PartOfSpeechClassifier._analyze_pronoun: <<person, number, case>>
analyze_pronoun(pronoun) ==
  IF pronoun = "i" THEN << "first", "singular", "nominative" >>
  ELSE IF pronoun = "me" THEN << "first", "singular", "objective" >>
  ELSE IF pronoun = "we" THEN << "first", "plural", "nominative" >>
  ELSE IF pronoun = "us" THEN << "first", "plural", "objective" >>
  ELSE IF pronoun \in {"you", "ye", "thou"} THEN << "second", "singular", "nominative" >>
  ELSE IF pronoun = "thee" THEN << "second", "singular", "objective" >>
  ELSE IF pronoun \in {"he", "she", "it"} THEN << "third", "singular", "nominative" >>
  ELSE IF pronoun \in {"him", "her"} THEN << "third", "singular", "objective" >>
  ELSE IF pronoun = "they" THEN << "third", "plural", "nominative" >>
  ELSE IF pronoun = "them" THEN << "third", "plural", "objective" >>
  ELSE << "third", "singular", "nominative" >>

\* PartOfSpeechClassifier._get_pronoun_gender (classifier.py only)
get_pronoun_gender(lemma) ==
  IF lemma \in {"he", "him", "his"} THEN "masculine"
  ELSE IF lemma \in {"she", "her", "hers"} THEN "feminine"
  ELSE "neuter"

\* PartOfSpeechClassifier._create_pronoun_token
create_pronoun_token(impl, word, lemma, start, end) ==
  LET a == analyze_pronoun(lemma)
      base == [ person |-> a[1], number |-> a[2], case |-> a[3],
                features |-> [pronoun_type |-> "personal"] ]
  IN  Token(word, lemma, "pronoun", start, end,
            IF impl = "modular"
            THEN base @@ [gender |-> get_pronoun_gender(lemma)]
            ELSE base)

\* PartOfSpeechClassifier._create_possessive_token (with _get_person_from_pronoun)
create_possessive_token(impl, word, lemma, base, start, end) ==
  IF lemma \in POSSESSIVE_PRONOUNS
  THEN Token(word, lemma, "pronoun", start, end,
             IF impl = "modular"
             THEN [ case |-> "possessive",
                    gender |-> IF lemma = "his" THEN "masculine"
                               ELSE IF lemma \in {"her", "hers"} THEN "feminine"
                               ELSE "neuter",
                    number |-> IF lemma \in {"our", "ours", "their", "theirs"}
                               THEN "plural" ELSE "singular",
                    person |-> IF lemma \in {"my", "mine", "our", "ours"} THEN "first"
                               ELSE IF lemma \in {"your", "yours"} THEN "second"
                               ELSE "third",
                    features |-> [pronoun_type |-> "possessive"] ]
             ELSE [ case |-> "possessive",
                    features |-> [pronoun_type |-> "possessive"] ])
  ELSE Token(word, base, "noun", start, end,
             [ case |-> "possessive", features |-> [base |-> base] ])

\* PartOfSpeechClassifier._create_verb_token
create_verb_token(word, lemma, start, end) ==
  LET aux == IF lemma \in AUXILIARY_BE THEN "auxiliary" :> "be"
             ELSE IF lemma \in AUXILIARY_HAVE THEN "auxiliary" :> "have"
             ELSE IF lemma \in AUXILIARY_DO THEN "auxiliary" :> "do"
             ELSE IF lemma \in AUXILIARY_GET THEN "auxiliary" :> "get"
             ELSE IF lemma \in MODAL_VERBS THEN "modal" :> TRUE
             ELSE << >>
      trans == IF lemma \in COMMON_TRANSITIVE_VERBS THEN "transitive" :> TRUE
               ELSE IF lemma \in COMMON_INTRANSITIVE_VERBS THEN "transitive" :> FALSE
               ELSE << >>
      sg3 == EndsWith(word, "s") /\ ~EndsWithAny(word, {"ss", "us"})
      part == IF is_past_participle(lemma) THEN "participle" :> "past"
              ELSE IF is_present_participle(lemma) THEN "participle" :> "present"
              ELSE << >>
  IN  Token(word, lemma, "verb", start, end,
            [ person |-> IF sg3 THEN "third" ELSE None,
              number |-> IF sg3 THEN "singular" ELSE None,
              features |-> aux @@ trans @@ (IF sg3 THEN "3sg" :> TRUE ELSE << >>) @@ part ])

\* PartOfSpeechClassifier._create_noun_token
create_noun_token(word, lemma, is_possessive, start, end) ==
  Token(word, lemma, "noun", start, end,
        [ case |-> IF is_possessive THEN "possessive" ELSE "nominative",
          number |-> IF is_plural_noun(word) THEN "plural" ELSE "singular",
          person |-> "third",
          features |-> [proper |-> is_capitalized(word)] ])

\* _is_like_noun_context, _is_work_noun_context, _is_wrong_noun_context: whether
\* some occurrence of lemma in the context directly follows one of the words
\* of before; context is None or a sequence of words
is_noun_context(context, lemma, before) ==
  /\ context # None
  /\ \E i \in 2..Len(context) :
       Lower(context[i]) = lemma /\ Lower(context[i - 1]) \in before

\* the possessive_contexts / noun_contexts sets shared by the three context tests
DETERMINER_CONTEXTS ==
  { "my", "your", "his", "her", "its", "our", "their", "mine", "yours", "hers",
    "ours", "theirs", "the", "a", "an", "this", "that", "these", "those" }

\* PartOfSpeechClassifier.classify; impl = "monolith" is the copy in parser.py,
\* which tests the personal pronouns first and never looks at the context
classify(impl, word, start, end, context) ==
  LET lemma == Lower(word)
      base == strip_possessive(lemma)[1]
      is_possessive == strip_possessive(lemma)[2]
      modular == impl = "modular"
  IN  IF Len(word) = 1 /\ word \in {".", ",", ";", ":", "!", "?", "(", ")"}
      THEN Token(word, word, "punctuation", start, end, << >>)
      ELSE IF lemma \in DEFAULT_ARTICLES
      THEN Token(word, lemma, "article", start, end,
                 [features |-> [definite |-> lemma = "the"]])
      ELSE IF ~modular /\ lemma \in PERSONAL_PRONOUNS
      THEN create_pronoun_token(impl, word, lemma, start, end)
      ELSE IF lemma \in POSSESSIVE_PRONOUNS \/ is_possessive
      THEN create_possessive_token(impl, word, lemma, base, start, end)
      ELSE IF lemma \in PERSONAL_PRONOUNS
      THEN create_pronoun_token(impl, word, lemma, start, end)
      ELSE IF lemma \in DEMONSTRATIVE_PRONOUNS
      THEN Token(word, lemma, "pronoun", start, end,
                 [ number |-> IF lemma \in {"these", "those"} THEN "plural" ELSE "singular",
                   features |-> [pronoun_type |-> "demonstrative"] ])
      ELSE IF lemma \in RELATIVE_PRONOUNS
      THEN Token(word, lemma, "pronoun", start, end,
                 [features |-> [pronoun_type |-> "relative"]])
      ELSE IF lemma \in COORDINATING_CONJUNCTIONS \cup SUBORDINATING_CONJUNCTIONS
      THEN Token(word, lemma, "conjunction", start, end,
                 [features |-> [conjunction_type |->
                    IF lemma \in COORDINATING_CONJUNCTIONS
                    THEN "coordinating" ELSE "subordinating"]])
      ELSE IF lemma \in PREPOSITIONS
      THEN IF modular /\ lemma = "like" /\ is_noun_context(context, "like", DETERMINER_CONTEXTS)
           THEN create_noun_token(word, lemma, is_possessive, start, end)
           ELSE Token(word, lemma, "preposition", start, end, << >>)
      ELSE IF lemma \in INTERJECTIONS
      THEN Token(word, lemma, "interjection", start, end, << >>)
      ELSE IF is_verb(lemma)
      THEN IF /\ modular /\ lemma = "work"
              /\ is_noun_context(context, "work", DETERMINER_CONTEXTS \cup
                   {"hard", "good", "bad", "great", "important", "difficult", "easy"})
           THEN create_noun_token(word, lemma, is_possessive, start, end)
           ELSE create_verb_token(word, lemma, start, end)
      ELSE IF lemma \in ADVERBS \/ EndsWith(lemma, "ly")
      THEN Token(word, lemma, "adverb", start, end, << >>)
      ELSE IF lemma \in COMMON_ADJECTIVES
      THEN IF modular /\ lemma = "wrong" /\ is_noun_context(context, "wrong", DETERMINER_CONTEXTS)
           THEN create_noun_token(word, lemma, is_possessive, start, end)
           ELSE Token(word, lemma, "adjective", start, end, << >>)
      ELSE IF lemma \in COMMON_NOUNS
      THEN create_noun_token(word, lemma, is_possessive, start, end)
      ELSE IF EndsWithAny(lemma, ADJECTIVE_SUFFIX_PATTERN(impl))
      THEN Token(word, lemma, "adjective", start, end, << >>)
      ELSE create_noun_token(word, lemma, is_possessive, start, end)

\* ------------------------------------------------------------------------
\* Syntactic analysis (SyntacticParser; the same code in syntactic.py and
\* parser.py).  Sequences are 1-based: Python's tokens[i] is tokens[i + 1].
\* ------------------------------------------------------------------------
\* None in a field that holds a Phrase (a record cannot be compared with a string)
NoPhrase == << >>

\* bool(dict.get(k)) for a key that holds a boolean when present
Truthy(f, k) == k \in DOMAIN f /\ f[k]

\* list.index(x): the first position holding a value equal to x
index(seq, x) == CHOOSE i \in 1..Len(seq) : seq[i] = x /\ \A j \in 1..(i - 1) : seq[j] # x

\* Phrase(tokens=..., phrase_type=..., head_index=...); head_index is Python's (0-based)
Phrase(tokens, phrase_type, head_index) ==
  [ tokens |-> tokens, phrase_type |-> phrase_type, head_index |-> head_index ]

\* SyntacticParser.ADVERB_LIKE
ADVERB_LIKE ==
  { "very", "quite", "rather", "too", "so", "more", "most", "less", "least",
    "really", "extremely", "fairly", "pretty", "highly", "incredibly",
    "particularly" }

\* SyntacticParser._looks_adverb
looks_adverb(token) ==
  \/ token.lemma \in ADVERB_LIKE
  \/ token.pos = "adverb"
  \/ EndsWith(token.lemma, "ly")

\* SyntacticParser._is_base_verb_shape
is_base_verb_shape(lemma) ==
  LET irregular_past_tense ==
        { "went", "came", "saw", "made", "took", "got", "gave", "found", "knew",
          "thought", "told", "became", "left", "felt", "brought", "began", "ran",
          "held", "heard", "kept", "meant", "met", "paid", "read", "said", "sat",
          "sent", "stood", "understood", "wrote", "ate", "fell", "grew", "threw",
          "wore", "won", "spoke", "broke", "chose", "drove", "rode", "sold",
          "taught", "caught", "fought", "bought", "sought" }
      verbs == COMMON_TRANSITIVE_VERBS \cup COMMON_INTRANSITIVE_VERBS
  IN  IF lemma \in AUXILIARY_BE \cup AUXILIARY_HAVE \cup AUXILIARY_DO
                   \cup AUXILIARY_GET \cup MODAL_VERBS THEN FALSE
      ELSE IF lemma \in irregular_past_tense THEN FALSE
      ELSE IF EndsWith(lemma, "ing") THEN FALSE
      ELSE IF EndsWith(lemma, "ed") THEN FALSE
      ELSE IF /\ EndsWith(lemma, "s")
              /\ ~EndsWithAny(lemma, {"ss", "us", "as", "is", "ness"})
              /\ \/ DropLast(lemma, 1) \in verbs
                 \/ EndsWith(lemma, "es") /\ DropLast(lemma, 2) \in verbs
      THEN FALSE
      ELSE TRUE

\* SyntacticParser._detect_sentence_type
detect_sentence_type(tokens) ==
  LET n == Len(tokens)
  IN  IF n = 0 THEN "declarative"
      ELSE IF tokens[n].text = "?" THEN "interrogative"
      ELSE IF tokens[n].text = "!"
      THEN IF /\ tokens[1].lemma \in {"what", "how"}
              /\ n > 2
              /\ tokens[2].pos \in {"article", "adjective"}
           THEN "exclamatory"
           ELSE "imperative"
      ELSE IF tokens[1].lemma \in { "who", "what", "where", "when", "why", "how",
                                     "which", "whom", "whose" }
      THEN "interrogative"
      ELSE IF /\ n >= 2
              /\ tokens[1].pos = "verb"
              /\ tokens[1].lemma \in AUXILIARY_BE \cup AUXILIARY_HAVE
                                      \cup AUXILIARY_DO \cup MODAL_VERBS
              /\ tokens[2].pos = "pronoun"
      THEN "interrogative"
      ELSE IF tokens[1].pos = "verb" /\ is_base_verb_shape(tokens[1].lemma)
      THEN "imperative"
      ELSE "declarative"

\* the set irregular_past of _determine_tense
irregular_past ==
  { "went", "came", "saw", "made", "took", "got", "gave", "found", "knew", "thought",
    "told", "became", "left", "felt", "brought", "began", "ran", "held", "heard",
    "kept", "meant", "met", "paid", "read", "said", "sat", "sent", "stood",
    "understood", "wrote" }

\* _determine_tense that looks at the form of the last verb before it looks for
\* the patterns of the compound tenses
determine_tense_last_verb_first(verb_phrase) ==
  LET tokens == verb_phrase.tokens
      lemmas == { tokens[i].lemma : i \in 1..Len(tokens) }
      main_verb == tokens[Len(tokens)]
  IN  IF tokens = << >> THEN "present"
      ELSE IF EndsWith(main_verb.lemma, "ed") \/ is_past_participle(main_verb.lemma)
      THEN "past"
      ELSE IF lemmas \cap {"will", "shall"} # { }
      THEN IF lemmas \cap {"have", "has"} # { } THEN "future_perfect" ELSE "future"
      ELSE IF /\ lemmas \cap {"have", "has", "had"} # { }
              /\ \E i \in 1..Len(tokens) : Get(tokens[i].features, "participle") = "past"
      THEN IF "had" \in lemmas THEN "past_perfect" ELSE "present_perfect"
      ELSE "present"

\* SyntacticParser._determine_tense
determine_tense(verb_phrase) ==
  LET tokens == verb_phrase.tokens
      lemmas == { tokens[i].lemma : i \in 1..Len(tokens) }
      main_verb == tokens[Len(tokens)]
  IN  IF tokens = << >> THEN "present"
      ELSE IF lemmas \cap {"will", "shall"} # { }
      THEN IF lemmas \cap {"have", "has"} # { } THEN "future_perfect" ELSE "future"
      ELSE IF /\ lemmas \cap {"have", "has", "had"} # { }
              /\ \E i \in 1..Len(tokens) : Get(tokens[i].features, "participle") = "past"
      THEN IF "had" \in lemmas THEN "past_perfect" ELSE "present_perfect"
      ELSE IF EndsWith(main_verb.lemma, "ed") \/ is_past_participle(main_verb.lemma)
      THEN "past"      \* every branch under this test returns Tense.PAST
      ELSE "present"   \* every remaining branch returns Tense.PRESENT

\* SyntacticParser._find_verb_phrase: the first verb and the verbs directly after it
find_verb_phrase(tokens) ==
  LET verbs == { i \in 1..Len(tokens) : tokens[i].pos = "verb" }
  IN  IF verbs = { } THEN NoPhrase
      ELSE LET i == CHOOSE i \in verbs : \A k \in verbs : i <= k
               j == CHOOSE j \in i..Len(tokens) :
                      /\ \A k \in i..j : tokens[k].pos = "verb"
                      /\ j + 1 <= Len(tokens) => tokens[j + 1].pos # "verb"
           IN  Phrase(SubSeq(tokens, i, j), "VP", j - i)

\* _find_subject that gives the head by its position in the sentence instead of
\* its position in the phrase
find_subject_sentence_head(tokens, verb_phrase) ==
  LET verb_start_idx == index(tokens, verb_phrase.tokens[1])
      heads == { i \in 1..(verb_start_idx - 1) : tokens[i].pos \in {"noun", "pronoun"} }
      included(t) == /\ t.pos # "preposition"
                     /\ \/ t.case = "possessive"
                        \/ t.pos \in {"article", "adjective"}
                        \/ looks_adverb(t)
  IN  IF heads = { } THEN NoPhrase
      ELSE LET i == CHOOSE i \in heads : \A k \in heads : k <= i
               start_idx == CHOOSE s \in 1..i :
                              /\ \A k \in s..(i - 1) : included(tokens[k])
                              /\ s > 1 => ~included(tokens[s - 1])
           IN  Phrase(SubSeq(tokens, start_idx, i), "NP", i - 1)

\* a subject finder that goes on leftward over prepositions as well
find_subject_across_prepositions(tokens, verb_phrase) ==
  LET verb_start_idx == index(tokens, verb_phrase.tokens[1])
      heads == { i \in 1..(verb_start_idx - 1) : tokens[i].pos \in {"noun", "pronoun"} }
      included(t) == \/ t.pos = "preposition"
                     \/ t.case = "possessive"
                     \/ t.pos \in {"article", "adjective"}
                     \/ looks_adverb(t)
  IN  IF heads = { } THEN NoPhrase
      ELSE LET i == CHOOSE i \in heads : \A k \in heads : k <= i
               start_idx == CHOOSE s \in 1..i :
                              /\ \A k \in s..(i - 1) : included(tokens[k])
                              /\ s > 1 => ~included(tokens[s - 1])
           IN  Phrase(SubSeq(tokens, start_idx, i), "NP", i - start_idx)

\* SyntacticParser._find_subject
find_subject(tokens, verb_phrase) ==
  LET verb_start_idx == index(tokens, verb_phrase.tokens[1])
      heads == { i \in 1..(verb_start_idx - 1) : tokens[i].pos \in {"noun", "pronoun"} }
      included(t) == /\ t.pos # "preposition"
                     /\ \/ t.case = "possessive"
                        \/ t.pos \in {"article", "adjective"}
                        \/ looks_adverb(t)
  IN  IF heads = { } THEN NoPhrase
      ELSE LET i == CHOOSE i \in heads : \A k \in heads : k <= i
               start_idx == CHOOSE s \in 1..i :
                              /\ \A k \in s..(i - 1) : included(tokens[k])
                              /\ s > 1 => ~included(tokens[s - 1])
           IN  Phrase(SubSeq(tokens, start_idx, i), "NP", i - start_idx)

RECURSIVE find_object_scan(_, _, _, _)
\* the while loop of _find_object from position i: <<start_idx, end_idx>>,
\* 0 standing for None
find_object_scan(tokens, i, start_idx, end_idx) ==
  IF i > Len(tokens) THEN << start_idx, end_idx >>
  ELSE LET token == tokens[i]
       IN  IF token.pos \in {"punctuation", "conjunction"} THEN << start_idx, end_idx >>
           ELSE IF token.pos = "preposition" /\ start_idx = 0 THEN << start_idx, end_idx >>
           ELSE IF \/ token.pos \in {"article", "adjective", "noun", "pronoun"}
                   \/ looks_adverb(token)
           THEN find_object_scan(tokens, i + 1, IF start_idx = 0 THEN i ELSE start_idx, i)
           ELSE IF start_idx # 0 THEN << start_idx, end_idx >>
           ELSE find_object_scan(tokens, i + 1, start_idx, end_idx)

\* SyntacticParser._find_object
find_object(tokens, verb_phrase) ==
  LET verb_end_idx == index(tokens, verb_phrase.tokens[Len(verb_phrase.tokens)])
      se == find_object_scan(tokens, verb_end_idx + 1, 0, 0)
      object_tokens == SubSeq(tokens, se[1], se[2])
      heads == { j \in 1..Len(object_tokens) : object_tokens[j].pos \in {"noun", "pronoun"} }
  IN  IF se[1] = 0 THEN NoPhrase
      ELSE Phrase(object_tokens, "NP",
                  IF heads = { } THEN 0
                  ELSE (CHOOSE j \in heads : \A k \in heads : k <= j) - 1)

\* _determine_voice that looks for the past participle in the verb phrase only
determine_voice_no_lookahead(cfg, tokens, verb_phrase, object_phrase) ==
  LET vp == verb_phrase.tokens
      aux_set == {"be"} \cup (IF cfg.detect_get_passive THEN {"get"} ELSE { })
      has_aux == \E i \in 1..Len(vp) : Get(vp[i].features, "auxiliary") \in aux_set
      has_vbn_in_vp == \E i \in 1..Len(vp) : Get(vp[i].features, "participle") = "past"
  IN  IF has_aux /\ has_vbn_in_vp THEN "passive"
      ELSE IF \/ object_phrase # NoPhrase
              \/ \E i \in 1..Len(vp) : Truthy(vp[i].features, "transitive")
      THEN "active"
      ELSE "neuter"

\* SyntacticParser._determine_voice
determine_voice(cfg, tokens, verb_phrase, object_phrase) ==
  LET vp == verb_phrase.tokens
      is_vbn(tok) == Get(tok.features, "participle") = "past"
      aux_set == {"be"} \cup (IF cfg.detect_get_passive THEN {"get"} ELSE { })
      has_aux == \E i \in 1..Len(vp) : Get(vp[i].features, "auxiliary") \in aux_set
      has_vbn_in_vp == \E i \in 1..Len(vp) : is_vbn(vp[i])
      vp_last_idx == index(tokens, vp[Len(vp)])
      vbn_lookahead == \E k \in (vp_last_idx + 1)..(vp_last_idx + 2) :
                          k <= Len(tokens) /\ is_vbn(tokens[k])
  IN  IF has_aux /\ (has_vbn_in_vp \/ vbn_lookahead) THEN "passive"
      ELSE IF \/ object_phrase # NoPhrase
              \/ \E i \in 1..Len(vp) : Truthy(vp[i].features, "transitive")
      THEN "active"
      ELSE "neuter"

\* ------------------------------------------------------------------------
\* Results (models.py)
\* ------------------------------------------------------------------------
\* no ParseResult yet
NoResult == << >>

\* ParseResult whose flags default is one list shared by all instances: the
\* flags of the result made before are still in it
ParseResult_shared_flags(tokens) ==
  [ tokens |-> tokens, subject |-> NoPhrase, verb_phrase |-> NoPhrase,
    object_phrase |-> NoPhrase, voice |-> None, tense |-> None,
    sentence_type |-> None, rule_checks |-> << >>,
    flags |-> IF result = NoResult THEN << >> ELSE result.flags,
    errors |-> << >>, warnings |-> << >>, notes |-> << >> ]

\* ParseResult(tokens=tokens): every other field takes its default
ParseResult(tokens) ==
  [ tokens |-> tokens, subject |-> NoPhrase, verb_phrase |-> NoPhrase,
    object_phrase |-> NoPhrase, voice |-> None, tense |-> None,
    sentence_type |-> None, rule_checks |-> << >>, flags |-> << >>,
    errors |-> << >>, warnings |-> << >>, notes |-> << >> ]

\* a Flag whose span stops one character short of end
Flag_short_span(rule, message, start, end) ==
  [ rule |-> rule, message |-> message, span |-> [start |-> start, end |-> end - 1] ]

\* Flag(rule, message, Span(start, end))
Flag(rule, message, start, end) ==
  [ rule |-> rule, message |-> message, span |-> [start |-> start, end |-> end] ]

\* Phrase.head_token
head_token(phrase) == phrase.tokens[phrase.head_index + 1]

\* parse_result.rule_checks[key] = value
SetCheck(pr, key, value) == [pr EXCEPT !.rule_checks = (key :> value) @@ @]

\* a loop over the positions 1..n that appends make[i] for every position i of
\* the set hits, in increasing order of i
Pick(hits, make) ==
  [ k \in 1..Cardinality(hits) |->
      make[CHOOSE i \in hits : Cardinality({ j \in hits : j < i }) = k - 1] ]

\* the first position after i whose token's part of speech is not in skip,
\* Len(tokens) + 1 if there is none (the "while j < len(...) and ... : j += 1" loops)
SkipOver(tokens, i, skip) ==
  CHOOSE j \in (i + 1)..(Len(tokens) + 1) :
    /\ \A k \in (i + 1)..(j - 1) : tokens[k].pos \in skip
    /\ j <= Len(tokens) => tokens[j].pos \notin skip

\* ------------------------------------------------------------------------
\* Grammar rule checks (GrammarRuleValidator); impl tells validator.py
\* ("modular") from the copy in parser.py ("monolith") where they differ
\* ------------------------------------------------------------------------
\* the anchor taken without any precedence: the last verb of the chain
finite_verb_of_vp_last_verb(vp) == vp.tokens[Len(vp.tokens)]

\* GrammarRuleValidator._finite_verb_of_vp
finite_verb_of_vp(vp) ==
  LET t == vp.tokens
      n == Len(t)
      First(S) == t[CHOOSE i \in S : \A k \in S : i <= k]
      modal == { i \in 1..n : Truthy(t[i].features, "modal") }
      tensed == { i \in 1..n : /\ Get(t[i].features, "auxiliary") \in {"be", "do", "have"}
                               /\ "participle" \notin DOMAIN t[i].features }
      ending == { i \in 1..n : t[i].pos = "verb" /\ EndsWithAny(t[i].text, {"s", "ed"}) }
  IN  IF modal # { } THEN First(modal)
      ELSE IF tensed # { } THEN First(tensed)
      ELSE IF ending # { } THEN First(ending)
      ELSE t[n]

\* an agreement check that lets "was" and "were" pass with every subject, as
\* the other past forms do
check_agreement_past_be(impl, subject, verb) ==
  LET subj_number == IF subject.number = None THEN "singular" ELSE subject.number
      subj_person == IF subject.person = None THEN "third" ELSE subject.person
      third_sg == subj_person = "third" /\ subj_number = "singular"
  IN  IF verb.lemma = "am" THEN subj_person = "first" /\ subj_number = "singular"
      ELSE IF verb.lemma = "is" THEN third_sg
      ELSE IF verb.lemma = "are" THEN subj_number = "plural" \/ subj_person = "second"
      ELSE IF verb.lemma \in {"was", "were"} THEN TRUE
      ELSE IF third_sg THEN EndsWith(verb.text, "s") \/ Truthy(verb.features, "3sg")
      ELSE ~EndsWith(verb.text, "s")

\* GrammarRuleValidator._check_agreement
check_agreement(impl, subject, verb) ==
  LET subj_number == IF subject.number = None THEN "singular" ELSE subject.number
      subj_person == IF subject.person = None THEN "third" ELSE subject.person
      third_sg == subj_person = "third" /\ subj_number = "singular"
      past_tense_verbs ==
        { "gave", "went", "came", "saw", "took", "made", "got", "had", "did", "said",
          "thought", "knew", "felt", "found", "left", "put", "brought", "bought",
          "caught", "taught", "fought", "sought", "wrote", "drove", "rode", "chose",
          "spoke", "broke", "stole", "froze", "threw", "drew", "grew", "flew", "blew" }
      regular ==
        IF third_sg THEN EndsWith(verb.text, "s") \/ Truthy(verb.features, "3sg")
        ELSE IF impl = "modular" /\ EndsWith(verb.text, "ed") THEN TRUE
        ELSE ~EndsWith(verb.text, "s") \/ verb.lemma \in AUXILIARY_BE
  IN  IF verb.lemma = "am" THEN subj_person = "first" /\ subj_number = "singular"
      ELSE IF verb.lemma = "is" THEN third_sg
      ELSE IF verb.lemma \in {"are", "were"}
      THEN subj_number = "plural" \/ subj_person = "second"
      ELSE IF verb.lemma = "was" THEN subj_number = "singular" /\ subj_person # "second"
      ELSE IF impl = "monolith" THEN regular
      ELSE IF verb.lemma \in {"have", "has"}
      THEN verb.lemma = (IF third_sg THEN "has" ELSE "have")
      ELSE IF verb.lemma = "had" THEN TRUE
      ELSE IF verb.lemma \in {"do", "does"}
      THEN verb.lemma = (IF third_sg THEN "does" ELSE "do")
      ELSE IF verb.lemma = "did" THEN TRUE
      ELSE IF verb.lemma \in MODAL_VERBS THEN TRUE
      ELSE IF Get(verb.features, "participle") = "past" THEN TRUE
      ELSE IF verb.lemma \in past_tense_verbs THEN TRUE
      ELSE regular

\* GrammarRuleValidator._check_rule_1 (validator.py)
check_rule_1(pr) ==
  LET t == pr.tokens
      noun(i) == SkipOver(t, i, {"adjective", "adverb"})
      violation(i) == /\ Lower(t[i].text) \in {"a", "an"} /\ t[i].pos = "article"
                      /\ noun(i) <= Len(t)
                      /\ t[noun(i)].pos = "noun"
                      /\ t[noun(i)].number = "plural"
      flag(i) == Flag("RULE_1",
                      "Article '" \o t[i].text \o "' should only be used with singular nouns, not '"
                        \o t[noun(i)].text \o "'",
                      t[i].start, t[noun(i)].end)
      flags == Pick({ i \in 1..Len(t) : violation(i) }, [ i \in 1..Len(t) |-> flag(i) ])
  IN  [ SetCheck(pr, "RULE_1", flags = << >>) EXCEPT !.flags = @ \o flags ]

\* GrammarRuleValidator._check_rule_2 (validator.py)
check_rule_2(pr) ==
  LET t == pr.tokens
      comparative(i) ==
        /\ i + 1 <= Len(t)
        /\ t[i + 1].pos \in {"adjective", "adverb"}
        /\ t[i + 1].lemma \in { "more", "most", "better", "best", "worse", "worst", "less",
                                "least", "further", "furthest", "farther", "farthest" }
      noun(i) == SkipOver(t, i, {"adjective", "adverb"})
      violation(i) == /\ Lower(t[i].text) = "the" /\ t[i].pos = "article"
                      /\ ~comparative(i)
                      /\ ~(noun(i) <= Len(t) /\ t[noun(i)].pos = "noun")
      flag(i) == Flag("RULE_2", "Article 'the' should be followed by a noun",
                      t[i].start, t[i].end)
      flags == Pick({ i \in 1..Len(t) : violation(i) }, [ i \in 1..Len(t) |-> flag(i) ])
  IN  [ SetCheck(pr, "RULE_2", flags = << >>) EXCEPT !.flags = @ \o flags ]

\* GrammarRuleValidator._check_rule_3
check_rule_3(pr) ==
  LET has_subject == pr.subject # NoPhrase
      vp == pr.verb_phrase.tokens
      checked == SetCheck(pr, "RULE_3", has_subject)
  IN  IF ~has_subject /\ pr.verb_phrase # NoPhrase
      THEN [ checked EXCEPT
               !.flags = Append(@, Flag("RULE_3",
                                        "Verb phrase found without subject (nominative)",
                                        vp[1].start, vp[Len(vp)].end)),
               !.errors = Append(@, "RULE 3 violation: Verb phrase found without subject (nominative)") ]
      ELSE checked

\* GrammarRuleValidator._check_rule_4 (with _is_compound_subject in validator.py)
check_rule_4(impl, pr) ==
  IF pr.subject = NoPhrase \/ pr.verb_phrase = NoPhrase THEN pr
  ELSE LET subject_head == head_token(pr.subject)
           verb_to_check == finite_verb_of_vp(pr.verb_phrase)
           st == pr.subject.tokens
           is_compound == /\ impl = "modular"
                          /\ \E i \in 1..Len(st) : Lower(st[i].text) = "and"
           virtual_subject == Token("compound_subject", "compound_subject", "noun",
                                    st[1].start, st[Len(st)].end,
                                    [number |-> "plural", person |-> "third"])
           agrees == check_agreement(impl,
                                     IF is_compound THEN virtual_subject ELSE subject_head,
                                     verb_to_check)
           message == "Verb '" \o verb_to_check.text \o "' does not agree with subject '"
                        \o subject_head.text \o "' in number/person"
           lo == IF subject_head.start <= verb_to_check.start
                 THEN subject_head.start ELSE verb_to_check.start
           hi == IF subject_head.end >= verb_to_check.end
                 THEN subject_head.end ELSE verb_to_check.end
           checked == SetCheck(pr, "RULE_4", agrees)
       IN  IF agrees THEN checked
           ELSE [ checked EXCEPT
                    !.flags = Append(@, Flag("RULE_4", message, lo, hi)),
                    !.errors = Append(@, "RULE 4 violation: " \o message) ]

\* GrammarRuleValidator._check_rule_12 (parser.py)
check_rule_12(pr) ==
  LET t == pr.tokens
      noun(i) == SkipOver(t, i, {"article", "adjective"})
      governed(i) == /\ t[i].case = "possessive"
                     /\ noun(i) <= Len(t) /\ t[noun(i)].pos = "noun"
      ungoverned(i) == t[i].case = "possessive" /\ ~governed(i)
      message(i) == "Possessive '" \o t[i].text \o "' not followed by noun"
      flag(i) == Flag("RULE_12", message(i), t[i].start, t[i].end)
      warning(i) == "RULE 12: " \o message(i)
      possessive_pairs == { i \in 1..Len(t) : governed(i) }
      flagged == [ pr EXCEPT !.flags = @ \o Pick({ i \in 1..Len(t) : ungoverned(i) },
                                                 [ i \in 1..Len(t) |-> flag(i) ]),
                             !.warnings = @ \o Pick({ i \in 1..Len(t) : ungoverned(i) },
                                                    [ i \in 1..Len(t) |-> warning(i) ]) ]
  IN  IF possessive_pairs = { } THEN flagged
      ELSE [ SetCheck(flagged, "rule_12_possessive_governed", TRUE) EXCEPT
               !.notes = Append(@, "Found " \o ToString(Cardinality(possessive_pairs))
                                     \o " possessive relationship(s)") ]

\* GrammarRuleValidator._check_rule_18 (parser.py)
check_rule_18(pr) ==
  LET t == pr.tokens
      noun(i) == SkipOver(t, i, {"adjective", "article"})
      lacking(i) == /\ t[i].pos = "adjective"
                    /\ ~(noun(i) <= Len(t) /\ t[noun(i)].pos = "noun")
      message(i) == "Adjective '" \o t[i].text \o "' may lack noun to qualify"
      flag(i) == Flag("RULE_18", message(i), t[i].start, t[i].end)
      warning(i) == "RULE 18: " \o message(i)
  IN  [ pr EXCEPT !.flags = @ \o Pick({ i \in 1..Len(t) : lacking(i) },
                                      [ i \in 1..Len(t) |-> flag(i) ]),
                  !.warnings = @ \o Pick({ i \in 1..Len(t) : lacking(i) },
                                         [ i \in 1..Len(t) |-> warning(i) ]) ]

\* GrammarRuleValidator._check_rule_20 (parser.py)
check_rule_20(pr) ==
  IF pr.verb_phrase = NoPhrase THEN pr
  ELSE LET vp == pr.verb_phrase.tokens
           is_transitive == \E i \in 1..Len(vp) : Truthy(vp[i].features, "transitive")
           has_object == pr.object_phrase # NoPhrase
           message == "Transitive verb may require object (objective case)"
           checked == SetCheck(pr, "RULE_20", has_object)
       IN  IF ~(is_transitive /\ pr.voice = "active") THEN pr
           ELSE IF has_object THEN checked
           ELSE [ checked EXCEPT
                    !.flags = Append(@, Flag("RULE_20", message, vp[1].start, vp[Len(vp)].end)),
                    !.warnings = Append(@, "RULE 20: " \o message) ]

\* _check_rule_31 that puts its flags in front of the flags it finds
check_rule_31_in_front(pr) ==
  LET t == pr.tokens
      lacking(i) == /\ t[i].pos = "preposition"
                    /\ ~\E j \in (i + 1)..(i + 3) :
                          /\ j <= Len(t)
                          /\ t[j].pos \in {"noun", "pronoun"}
                          /\ \A k \in (i + 1)..(j - 1) : t[k].pos # "punctuation"
      flag(i) == Flag("RULE_31", "Preposition '" \o t[i].text \o "' lacks object",
                      t[i].start, t[i].end)
  IN  [ pr EXCEPT !.flags = Pick({ i \in 1..Len(t) : lacking(i) },
                                 [ i \in 1..Len(t) |-> flag(i) ]) \o @ ]

\* GrammarRuleValidator._check_rule_31 (parser.py)
check_rule_31(pr) ==
  LET t == pr.tokens
      n == Len(t)
      last(i) == IF i + 3 < n THEN i + 3 ELSE n
      found_object(i) ==
        \E j \in (i + 1)..last(i) :
          /\ t[j].pos \in {"noun", "pronoun"}
          /\ \A k \in (i + 1)..(j - 1) : t[k].pos # "punctuation"
      lacking(i) == t[i].pos = "preposition" /\ ~found_object(i)
      message(i) == "Preposition '" \o t[i].text \o "' lacks object"
      flag(i) == Flag("RULE_31", message(i), t[i].start, t[i].end)
      warning(i) == "RULE 31: " \o message(i)
  IN  [ pr EXCEPT !.flags = @ \o Pick({ i \in 1..n : lacking(i) }, [ i \in 1..n |-> flag(i) ]),
                  !.warnings = @ \o Pick({ i \in 1..n : lacking(i) },
                                         [ i \in 1..n |-> warning(i) ]) ]

\* GrammarRuleValidator._check_prep_object_case (parser.py)
check_prep_object_case(pr) ==
  LET t == pr.tokens
      k(i) == SkipOver(t, i, {"article", "adjective"})
      nominative(i) == /\ t[i].pos = "preposition"
                       /\ k(i) <= Len(t)
                       /\ t[k(i)].pos = "pronoun"
                       /\ t[k(i)].case = "nominative"
      flag(i) == Flag("RULE_31",
                      "Preposition '" \o t[i].text
                        \o "' should govern objective case; found nominative '"
                        \o t[k(i)].text \o "'",
                      t[k(i)].start, t[k(i)].end)
  IN  [ pr EXCEPT !.flags = @ \o Pick({ i \in 1..Len(t) : nominative(i) },
                                      [ i \in 1..Len(t) |-> flag(i) ]) ]

\* GrammarRuleValidator._check_copula_predicative_case (parser.py)
check_copula_predicative_case(cfg, pr) ==
  IF pr.verb_phrase = NoPhrase THEN pr
  ELSE LET vp == pr.verb_phrase.tokens
           t == pr.tokens
           start == index(t, vp[Len(vp)]) + 1
       IN  IF /\ \E i \in 1..Len(vp) : Get(vp[i].features, "auxiliary") = "be"
              /\ start <= Len(t)
              /\ t[start].pos = "pronoun"
              /\ t[start].case = "objective"
              /\ ~cfg.allow_informal_pronouns
           THEN [ pr EXCEPT !.flags =
                    Append(@, Flag("RULE_4",
                                   "After a form of 'to be', use nominative case; found '"
                                     \o t[start].text \o "'",
                                   t[start].start, t[start].end)) ]
           ELSE pr

\* GrammarRuleValidator.gov_inf_verbs (parser.py)
gov_inf_verbs ==
  { "want", "wants", "wanted", "wish", "wishes", "wished", "expect", "expects",
    "expected", "ask", "asks", "asked", "tell", "tells", "told", "permit", "permits",
    "permitted", "allow", "allows", "allowed", "cause", "causes", "caused", "compel",
    "compels", "compelled", "advise", "advises", "advised", "encourage", "encourages",
    "encouraged" }

\* GrammarRuleValidator._check_governed_infinitives (parser.py)
check_governed_infinitives(pr) ==
  LET t == pr.tokens
      nominative(i) == /\ Lower(t[i].text) = "to"
                       /\ i >= 3
                       /\ t[i - 1].pos = "pronoun"
                       /\ t[i - 2].pos = "verb"
                       /\ t[i - 2].lemma \in gov_inf_verbs
                       /\ t[i - 1].case = "nominative"
      flag(i) == Flag("RULE_20",
                      "Subject of governed infinitive after '" \o t[i - 2].text
                        \o "' should be objective; found '" \o t[i - 1].text \o "'",
                      t[i - 1].start, t[i - 1].end)
  IN  [ pr EXCEPT !.flags = @ \o Pick({ i \in 1..Len(t) : nominative(i) },
                                      [ i \in 1..Len(t) |-> flag(i) ]) ]

\* ------------------------------------------------------------------------
\* Orthography rules (OrthographyValidator)
\* ------------------------------------------------------------------------
Vowels == { "a", "e", "i", "o", "u" }

\* OrthographyValidator._is_monosyllable
is_monosyllable(word) == Cardinality({ i \in 1..Len(word) : Ch(word, i) \in Vowels }) = 1

\* the tokens a spelling check looks at: nouns, verbs and adjectives, capitalised
\* nouns left out
OrthoWord(token) ==
  /\ token.pos \in {"noun", "verb", "adjective"}
  /\ ~(IsUpper(Ch(token.text, 1)) /\ token.pos = "noun")

\* "for suffix in suffixes: if word.endswith(suffix): ... break": the first
\* suffix of the list the word ends with, None if there is none
FirstSuffix(word, suffixes) ==
  LET hits == { i \in 1..Len(suffixes) : EndsWith(word, suffixes[i]) }
  IN  IF hits = { } THEN None
      ELSE suffixes[CHOOSE i \in hits : \A k \in hits : i <= k]

\* the tail shared by the checks: the rule-check entry, then one flag per
\* violating token in token order; violations are token positions, message[i]
\* is the message for the token at position i
OrthoReport(pr, rule, violations, message) ==
  LET t == pr.tokens
      flags == Pick(violations,
                    [ i \in 1..Len(t) |-> Flag(rule, message[i], t[i].start, t[i].end) ])
  IN  [ SetCheck(pr, rule, flags = << >>) EXCEPT !.flags = @ \o flags ]

\* OrthographyValidator._check_ortho_i
check_ortho_i(pr) ==
  LET exceptions == { "if", "of", "is", "as", "has", "was", "this", "thus", "us", "yes",
                      "gas", "bus", "plus", "minus", "focus", "campus", "status" }
      violates(token) ==
        LET word == Lower(token.text)
            n == Len(word)
        IN  /\ OrthoWord(token)
            /\ word \notin exceptions
            /\ is_monosyllable(word) /\ EndsWithAny(word, {"f", "l", "s"})
            /\ n >= 3
            /\ Ch(word, n - 1) \in Vowels
            /\ Ch(word, n) # Ch(word, n - 1)
      message(token) == "Monosyllable '" \o token.text
                          \o "' ending in f/l/s should double the final consonant"
  IN  OrthoReport(pr, "ORTHO_I", { i \in 1..Len(pr.tokens) : violates(pr.tokens[i]) },
                  [ i \in 1..Len(pr.tokens) |-> message(pr.tokens[i]) ])

\* OrthographyValidator._check_ortho_ii
check_ortho_ii(pr) ==
  LET common_exceptions == {
        "years", "students", "studious", "serious", "obvious", "previous", "various",
        "curious", "glorious", "victorious", "mysterious", "generous", "numerous",
        "dangerous", "courageous", "outrageous", "advantageous", "disadvantageous",
        "courteous", "righteous", "spontaneous", "simultaneous", "instantaneous",
        "contemporaneous", "erroneous", "homogeneous", "heterogeneous", "extraneous",
        "subterraneous", "superfluous", "tempestuous", "voluptuous", "presumptuous",
        "sumptuous", "tumultuous", "unctuous", "virtuous", "sensuous", "conspicuous",
        "perspicuous", "ambiguous", "contiguous", "exiguous", "irreligious", "religious",
        "sacrilegious", "prodigious", "litigious", "prestigious", "tedious", "odious",
        "melodious", "commodious", "incommodious", "furious" }
      violates(token) ==
        LET word == Lower(token.text)
            n == Len(word)
        IN  /\ OrthoWord(token)
            /\ word \notin common_exceptions
            /\ ~is_monosyllable(word) /\ EndsWithAny(word, {"f", "l", "s"})
            /\ token.pos = "verb" /\ n >= 4
            /\ Ch(word, n) # Ch(word, n - 1)
      message(token) == "Polysyllable '" \o token.text
                          \o "' ending in f/l/s may need doubled final consonant"
  IN  OrthoReport(pr, "ORTHO_II", { i \in 1..Len(pr.tokens) : violates(pr.tokens[i]) },
                  [ i \in 1..Len(pr.tokens) |-> message(pr.tokens[i]) ])

\* OrthographyValidator._check_ortho_iii
check_ortho_iii(pr) ==
  LET common_endings == << "ed", "er", "est", "ly", "ness", "ment", "ful" >>
      violates(token) ==
        LET word == Lower(token.text)
            n == Len(word)
            ending == FirstSuffix(word, common_endings)
        IN  /\ OrthoWord(token)
            /\ n >= 3 /\ EndsWith(word, "y")
            /\ Ch(word, n - 1) \notin Vowels
            /\ ending # None /\ ~EndsWith(word, "ing")
            /\ EndsWith(DropLast(word, Len(ending)), "y")
      message(token) == "Word '" \o token.text
                          \o "' ending in y after consonant should change y to i before termination"
  IN  OrthoReport(pr, "ORTHO_III", { i \in 1..Len(pr.tokens) : violates(pr.tokens[i]) },
                  [ i \in 1..Len(pr.tokens) |-> message(pr.tokens[i]) ])

\* OrthographyValidator._check_ortho_iv
check_ortho_iv(pr) ==
  LET violates(token) ==
        LET word == Lower(token.text)
            n == Len(word)
        IN  /\ OrthoWord(token)
            /\ n >= 3 /\ EndsWith(word, "y")
            /\ Ch(word, n - 1) \in Vowels
            /\ EndsWithAny(word, {"ies", "ied"})
      message(token) == "Word '" \o token.text \o "' ending in y after vowel should retain y"
  IN  OrthoReport(pr, "ORTHO_IV", { i \in 1..Len(pr.tokens) : violates(pr.tokens[i]) },
                  [ i \in 1..Len(pr.tokens) |-> message(pr.tokens[i]) ])

\* OrthographyValidator._check_ortho_v
check_ortho_v(pr) ==
  LET dropping_suffixes == << "able", "ous", "ive", "ful", "less" >>
      violates(token) ==
        LET word == Lower(token.text)
            suffix == FirstSuffix(word, dropping_suffixes)
            base_word == DropLast(word, Len(suffix))
        IN  /\ OrthoWord(token)
            /\ suffix # None
            /\ Len(base_word) >= 2
            /\ \/ EndsWithAny(base_word, {"c", "g"}) /\ ~EndsWith(base_word, "e")
               \/ EndsWith(base_word, "e") /\ ~EndsWithAny(base_word, {"c", "g"})
      message(token) == "Word '" \o token.text \o "' with suffix may need final e adjustment"
  IN  OrthoReport(pr, "ORTHO_V", { i \in 1..Len(pr.tokens) : violates(pr.tokens[i]) },
                  [ i \in 1..Len(pr.tokens) |-> message(pr.tokens[i]) ])

\* OrthographyValidator._check_ortho_vi
check_ortho_vi(pr) ==
  LET vowel_suffixes == << "ing", "ed", "er", "est", "able", "ous", "ive" >>
      violates(token) ==
        LET word == Lower(token.text)
            suffix == FirstSuffix(word, vowel_suffixes)
            base_word == DropLast(word, Len(suffix))
        IN  /\ OrthoWord(token)
            /\ suffix # None
            /\ Len(base_word) >= 2 /\ EndsWith(base_word, "e")
      message(token) == "Word '" \o token.text
                          \o "' should drop final silent e before vowel-initial suffix"
  IN  OrthoReport(pr, "ORTHO_VI", { i \in 1..Len(pr.tokens) : violates(pr.tokens[i]) },
                  [ i \in 1..Len(pr.tokens) |-> message(pr.tokens[i]) ])

\* OrthographyValidator._check_ortho_vii: the loop collects nothing
check_ortho_vii(pr) == SetCheck(pr, "ORTHO_VII", TRUE)

\* OrthographyValidator._check_ortho_viii
check_ortho_viii(pr) == SetCheck(pr, "ORTHO_VIII", TRUE)

\* OrthographyValidator._check_ortho_ix
check_ortho_ix(pr) == SetCheck(pr, "ORTHO_IX", TRUE)

\* OrthographyValidator._check_ortho_x
check_ortho_x(pr) ==
  LET violates(token) ==
        LET word == Lower(token.text)
            base_word == IF EndsWith(word, "ing") THEN DropLast(word, 3) ELSE DropLast(word, 4)
        IN  /\ OrthoWord(token)
            /\ EndsWithAny(word, {"ing", "ish"})
            /\ Len(base_word) >= 2 /\ EndsWith(base_word, "e")
      message(token) == "Word '" \o token.text \o "' should drop final e before -ing or -ish"
  IN  OrthoReport(pr, "ORTHO_X", { i \in 1..Len(pr.tokens) : violates(pr.tokens[i]) },
                  [ i \in 1..Len(pr.tokens) |-> message(pr.tokens[i]) ])

\* ------------------------------------------------------------------------
\* Punctuation rules (PunctuationValidator)
\* ------------------------------------------------------------------------
\* a period check whose flag spans the last token instead of the point after it
check_period_rules_on_last_token(pr) ==
  LET last == pr.tokens[Len(pr.tokens)]
      ok == EndsWithAny(last.text, {".", "!", "?"})
      checked == SetCheck(pr, "PERIOD_RULE", ok)
  IN  IF ok THEN checked
      ELSE [ checked EXCEPT !.flags =
               Append(@, Flag("PERIOD_RULE",
                              "Sentence should end with period, exclamation, or question mark",
                              last.start, last.end)) ]

\* PunctuationValidator._check_period_rules; tokens[-1] of an empty list is an
\* IndexError, reported by the caller
check_period_rules(pr) ==
  LET last == pr.tokens[Len(pr.tokens)]
      ok == EndsWithAny(last.text, {".", "!", "?"})
      checked == SetCheck(pr, "PERIOD_RULE", ok)
  IN  IF ok THEN checked
      ELSE [ checked EXCEPT !.flags =
               Append(@, Flag("PERIOD_RULE",
                              "Sentence should end with period, exclamation, or question mark",
                              last.end, last.end)) ]

\* ------------------------------------------------------------------------
\* Configuration (models.ParserConfig)
\* ------------------------------------------------------------------------
\* ParserConfig(): the field defaults
DEFAULT_CONFIG ==
  [ enforce_rule_1_strict |-> TRUE, enforce_rule_2_strict |-> TRUE,
    enforce_rule_3_strict |-> TRUE, enforce_rule_4_strict |-> TRUE,
    enforce_rule_8_strict |-> TRUE, enforce_rule_12_strict |-> TRUE,
    enforce_rule_13_strict |-> TRUE, enforce_rule_18_strict |-> TRUE,
    enforce_rule_19_strict |-> TRUE, enforce_rule_20_strict |-> TRUE,
    enforce_rule_21_strict |-> TRUE, enforce_rule_25_strict |-> TRUE,
    enforce_rule_28_strict |-> TRUE, enforce_rule_29_strict |-> TRUE,
    enforce_rule_30_strict |-> TRUE, enforce_rule_31_strict |-> TRUE,
    enforce_ortho_rules |-> TRUE, enforce_ortho_i |-> TRUE, enforce_ortho_ii |-> TRUE,
    enforce_ortho_iii |-> TRUE, enforce_ortho_iv |-> TRUE, enforce_ortho_v |-> TRUE,
    enforce_ortho_vi |-> TRUE, enforce_ortho_vii |-> TRUE, enforce_ortho_viii |-> TRUE,
    enforce_ortho_ix |-> TRUE, enforce_ortho_x |-> TRUE,
    enforce_punctuation_rules |-> TRUE, enforce_comma_rules |-> TRUE,
    enforce_semicolon_rules |-> TRUE, enforce_colon_rules |-> TRUE,
    enforce_period_rules |-> TRUE, enforce_dash_rules |-> TRUE,
    enforce_interrogation_rules |-> TRUE, enforce_exclamation_rules |-> TRUE,
    enforce_apostrophe_rules |-> TRUE, enforce_quotation_rules |-> TRUE,
    detect_get_passive |-> TRUE, detect_been_passive |-> TRUE, detect_infinitives |-> TRUE,
    detect_sentence_type |-> TRUE, detect_tense |-> TRUE,
    allow_informal_pronouns |-> FALSE, allow_sentence_fragments |-> FALSE,
    max_parse_depth |-> 100, enable_extended_validation |-> TRUE ]

\* ParserConfig.strict_formal()
strict_formal ==
  [ DEFAULT_CONFIG EXCEPT !.enforce_rule_20_strict = TRUE, !.enforce_rule_12_strict = TRUE,
                          !.enforce_rule_4_strict = TRUE, !.enforce_rule_3_strict = TRUE,
                          !.allow_informal_pronouns = FALSE,
                          !.allow_sentence_fragments = FALSE,
                          !.enable_extended_validation = TRUE ]

\* ParserConfig.modern_permissive()
modern_permissive ==
  [ DEFAULT_CONFIG EXCEPT !.enforce_rule_20_strict = FALSE, !.enforce_rule_12_strict = FALSE,
                          !.enforce_rule_4_strict = TRUE, !.enforce_rule_3_strict = FALSE,
                          !.allow_informal_pronouns = TRUE,
                          !.allow_sentence_fragments = TRUE,
                          !.enable_extended_validation = FALSE ]

\* ParserConfig.educational()
educational ==
  [ DEFAULT_CONFIG EXCEPT !.enforce_rule_20_strict = TRUE, !.enforce_rule_12_strict = TRUE,
                          !.enforce_rule_4_strict = TRUE, !.enforce_rule_3_strict = TRUE,
                          !.allow_informal_pronouns = FALSE,
                          !.allow_sentence_fragments = FALSE,
                          !.enable_extended_validation = TRUE,
                          !.detect_sentence_type = TRUE, !.detect_tense = TRUE ]

\* the boolean fields read by parse and by the validators
Toggles ==
  { "detect_sentence_type", "detect_tense", "detect_get_passive",
    "enforce_rule_1_strict", "enforce_rule_2_strict", "enforce_rule_3_strict",
    "enforce_rule_4_strict", "enforce_rule_12_strict", "enforce_rule_18_strict",
    "enforce_rule_20_strict", "enforce_rule_31_strict", "enable_extended_validation",
    "allow_informal_pronouns",
    "enforce_ortho_rules", "enforce_ortho_i", "enforce_ortho_ii", "enforce_ortho_iii",
    "enforce_ortho_iv", "enforce_ortho_v", "enforce_ortho_vi", "enforce_ortho_vii",
    "enforce_ortho_viii", "enforce_ortho_ix", "enforce_ortho_x",
    "enforce_punctuation_rules", "enforce_period_rules" }

\* the most fields in which a configuration differs from a preset
MaxFlips == 1

\* dataclasses.replace(base, field = not base.field) for every field of flips
Flip(base, flips) ==
  [ k \in DOMAIN base |-> IF k \in flips THEN ~base[k] ELSE base[k] ]

RECURSIVE Subsets(_, _)
\* the subsets of S that have at most n elements
Subsets(S, n) ==
  IF n = 0 THEN { { } }
  ELSE LET smaller == Subsets(S, n - 1)
       IN  smaller \cup { T \cup { x } : T \in smaller, x \in S }

\* the configurations a parser is constructed with
ParserConfigs ==
  { Flip(preset, flips) :
      preset \in { DEFAULT_CONFIG, strict_formal, modern_permissive, educational },
      flips \in Subsets(Toggles, MaxFlips) }

\* ------------------------------------------------------------------------
\* Validation order
\* ------------------------------------------------------------------------
\* GrammarRuleValidator.validate: the checks in the order of the code, each with
\* the config field its "if" reads.  ParserConfig has no field
\* enforce_rule_5_strict, so validator.py never gets beyond its fifth "if".
VALIDATE(impl) ==
  IF impl = "modular"
  THEN << [ gate |-> "enforce_rule_1_strict", check |-> "rule_1" ],
          [ gate |-> "enforce_rule_2_strict", check |-> "rule_2" ],
          [ gate |-> "enforce_rule_3_strict", check |-> "rule_3" ],
          [ gate |-> "enforce_rule_4_strict", check |-> "rule_4" ],
          [ gate |-> "enforce_rule_5_strict", check |-> "rule_5" ] >>
  ELSE << [ gate |-> "enforce_rule_3_strict", check |-> "rule_3" ],
          [ gate |-> "enforce_rule_4_strict", check |-> "rule_4" ],
          [ gate |-> "enforce_rule_12_strict", check |-> "rule_12" ],
          [ gate |-> "enable_extended_validation", check |-> "rule_18" ],
          [ gate |-> "enforce_rule_20_strict", check |-> "rule_20" ],
          [ gate |-> "enable_extended_validation", check |-> "rule_31" ],
          [ gate |-> "enable_extended_validation", check |-> "prep_object_case" ],
          [ gate |-> "enable_extended_validation", check |-> "copula_predicative_case" ],
          [ gate |-> "enable_extended_validation", check |-> "governed_infinitives" ] >>

\* self._check_<name>(parse_result)
RunCheck(impl, cfg, name, pr) ==
  CASE name = "rule_1" -> check_rule_1(pr)
    [] name = "rule_2" -> check_rule_2(pr)
    [] name = "rule_3" -> check_rule_3(pr)
    [] name = "rule_4" -> check_rule_4(impl, pr)
    [] name = "rule_12" -> check_rule_12(pr)
    [] name = "rule_18" -> check_rule_18(pr)
    [] name = "rule_20" -> check_rule_20(pr)
    [] name = "rule_31" -> check_rule_31(pr)
    [] name = "prep_object_case" -> check_prep_object_case(pr)
    [] name = "copula_predicative_case" -> check_copula_predicative_case(cfg, pr)
    [] name = "governed_infinitives" -> check_governed_infinitives(pr)

\* OrthographyValidator.validate below the master switch: the checks in order,
\* each with its toggle
ORTHO_CHECKS ==
  << "enforce_ortho_i", "enforce_ortho_ii", "enforce_ortho_iii", "enforce_ortho_iv",
     "enforce_ortho_v", "enforce_ortho_vi", "enforce_ortho_vii", "enforce_ortho_viii",
     "enforce_ortho_ix", "enforce_ortho_x" >>

RECURSIVE ortho_from(_, _, _)
\* the checks from position i on, applied in order
ortho_from(cfg, pr, i) ==
  IF i > Len(ORTHO_CHECKS) THEN pr
  ELSE LET checked ==
             CASE i = 1 -> check_ortho_i(pr)
               [] i = 2 -> check_ortho_ii(pr)
               [] i = 3 -> check_ortho_iii(pr)
               [] i = 4 -> check_ortho_iv(pr)
               [] i = 5 -> check_ortho_v(pr)
               [] i = 6 -> check_ortho_vi(pr)
               [] i = 7 -> check_ortho_vii(pr)
               [] i = 8 -> check_ortho_viii(pr)
               [] i = 9 -> check_ortho_ix(pr)
               [] i = 10 -> check_ortho_x(pr)
       IN  ortho_from(cfg, IF cfg[ORTHO_CHECKS[i]] THEN checked ELSE pr, i + 1)

\* validate without the test of the master switch
ortho_validate_unswitched(cfg, pr) == ortho_from(cfg, pr, 1)

\* OrthographyValidator.validate
ortho_validate(cfg, pr) ==
  IF ~cfg.enforce_ortho_rules THEN pr ELSE ortho_from(cfg, pr, 1)

\* ------------------------------------------------------------------------
\* Inputs
\* ------------------------------------------------------------------------
\* sentences given to parse
Sentences ==
  { "The cat sat on the mat.", "The cats runs.", "The mouse was chased by the cat.",
    "She will have gone.", "A dogs are playing.", "Sit down!", "It is me.", "It is I.",
    "They wanted he to go.", "The cat.", "Run.", "", "He sat on.", "He gave it to I.",
    "They make.", "Its like is rare.", "What a day!", "Is he happy?", "We got caught.",
    "John's book is here.", "The is.", "You was here.", "I am.", "Cats run",
    "He runs quickly.", "Oh, she runs!", "She has been seen.", "He saw they.",
    "The work works.", "I like him.", "The gal gives.", "She is seeing.",
    "He was careful.", "The cats runs", "Oh, the cat saw him.",
    "He got chased.", "He was never seen.", "He will go.", "He had gone.",
    "Been you there.", "Can they go.", "He runs can.",
    "They is here.", "He are here.", "You were here.", "He were here.", "He am.",
    "The cat on the very old mat sat.", "Her cat sat." }

\* sentences parsed more than once
RepeatTexts == { "The cats runs.", "It is me.", "The cat." }

\* the sentences of a batch
BatchTexts == { "The cats runs.", "It is me.", "The cat." }

\* Pool(processes=num_processes): the calls that run side by side
num_processes == 2

\* single words given to the classifier: the nouns and adjectives of the
\* lexicon's lists, and verbs by list and by suffix
WordTexts == COMMON_NOUNS \cup COMMON_ADJECTIVES \cup { "runs", "walked", "going", "is" }

\* the most parse calls in a row
MaxCalls == 3

\* the parsers constructed side by side
ParserIds == { 1, 2 }

\* the characters of the raw texts: a lower-case and an upper-case letter, the
\* apostrophe and hyphen that join words, a digit, the period, white space, and
\* a character no token matches
RawAlphabet == { "a", "s", "S", "'", "-", "1", ".", " ", "@" }

\* the longest raw text
MaxLen == 4

RECURSIVE TextsOfLen(_)
\* the raw texts of exactly n characters
TextsOfLen(n) ==
  IF n = 0 THEN { "" }
  ELSE { c \o t : c \in RawAlphabet, t \in TextsOfLen(n - 1) }

\* the raw texts given to the tokenizer
RawTexts == UNION { TextsOfLen(n) : n \in 0..MaxLen }

Impls == { "modular", "monolith" }

RECURSIVE validate_from(_, _, _, _)
\* the checks of validate from the i-th on: the outcome (the exception, None
\* if none) and what the result holds then
validate_from(impl, cfg, pr, i) ==
  LET checks == VALIDATE(impl)
      gate == checks[i].gate
      checked == IF cfg[gate] THEN RunCheck(impl, cfg, checks[i].check, pr) ELSE pr
  IN  IF gate \notin DOMAIN cfg THEN [ exc |-> "AttributeError", result |-> pr ]
      ELSE IF i = Len(checks) THEN [ exc |-> None, result |-> checked ]
      ELSE validate_from(impl, cfg, checked, i + 1)

\* parse(sentence) run from its first line to its last with nothing in between:
\* the outcome and the result
parse_alone(impl, cfg, s) ==
  LET words == tokenize(s)
      tokens == [ i \in 1..Len(words) |->
                    classify(impl, words[i].text, words[i].start, words[i].end, None) ]
      made == [ ParseResult(tokens) EXCEPT !.notes =
                  Append(@, "Sentence length: " \o ToString(Len(s))
                              \o " chars, " \o ToString(Len(tokens)) \o " tokens") ]
      typed == IF cfg.detect_sentence_type
               THEN [ made EXCEPT !.sentence_type = detect_sentence_type(tokens) ]
               ELSE made
      verb_phrase == find_verb_phrase(tokens)
      found == [ typed EXCEPT !.verb_phrase = verb_phrase ]
      with_subject == [ found EXCEPT !.subject = find_subject(tokens, verb_phrase) ]
      with_object == [ with_subject EXCEPT !.object_phrase = find_object(tokens, verb_phrase) ]
      with_voice == [ with_object EXCEPT !.voice =
                        determine_voice(cfg, tokens, verb_phrase, with_object.object_phrase) ]
      with_tense == IF cfg.detect_tense
                    THEN [ with_voice EXCEPT !.tense = determine_tense(verb_phrase) ]
                    ELSE with_voice
  IN  IF verb_phrase = NoPhrase
      THEN [ exc |-> None,
             result |-> [ found EXCEPT !.warnings = Append(@, "No finite verb found in sentence") ] ]
      ELSE validate_from(impl, cfg, with_tense, 1)

\* ------------------------------------------------------------------------
\* The parser as a state machine
\* ------------------------------------------------------------------------
\* self.config of the parser that runs
config == parsers[self]

\* no parallel batch runs
NoPool == << >>

\* no call yet: the parsers are constructed, nothing is parsed
Constructed ==
  /\ calls = 0 /\ self = 1 /\ sentence = "" /\ pc = "ready"
  /\ word_tokens = << >> /\ result = NoResult
  /\ vi = 0 /\ exc = None /\ trace = << >> /\ history = << >>
  /\ pool = NoPool

\* one parser with any configuration
Init ==
  /\ package \in Impls
  /\ parsers \in { << c >> : c \in ParserConfigs }
  /\ Constructed

\* several parsers, each constructed with one of the presets
InitCalls ==
  /\ package \in Impls
  /\ parsers \in [ ParserIds -> { DEFAULT_CONFIG, modern_permissive } ]
  /\ Constructed

\* one parser with the default configuration
InitTok ==
  /\ package \in Impls
  /\ parsers = << DEFAULT_CONFIG >>
  /\ Constructed

\* "return result" with the value r
Return(r) ==
  /\ result' = r
  /\ pc' = "returned"
  /\ exc' = None
  /\ history' = Append(history, [ parser |-> self, text |-> sentence, exc |-> None, result |-> r ])

\* an exception of class e leaves parse; r is what the result object holds then
Raise(e, r) ==
  /\ result' = r
  /\ pc' = "raised"
  /\ exc' = e
  /\ history' = Append(history, [ parser |-> self, text |-> sentence, exc |-> e, result |-> r ])

\* a client calls parser.parse(t) on one of the parsers, at most n calls in all
Call(texts, n) ==
  /\ pc \in { "ready", "returned", "raised" }
  /\ calls < n
  /\ \E p \in DOMAIN parsers, t \in texts :
       /\ self' = p
       /\ sentence' = t
  /\ calls' = calls + 1
  /\ pc' = "tokenize"
  /\ vi' = 0 /\ exc' = None /\ trace' = << >>
  /\ UNCHANGED << pool, package, parsers, word_tokens, result, history >>

\* word_tokens = TextUtils.tokenize(sentence)
Tokenize ==
  /\ pc = "tokenize"
  /\ word_tokens' = tokenize(sentence)
  /\ pc' = "classify"
  /\ trace' = Append(trace, "tokenize")
  /\ UNCHANGED << pool, package, parsers, calls, self, sentence, result, vi, exc, history >>

\* parse keeping its result object on the parser and filling it again at every
\* call: what the object held after the call before, the caller's changes
\* included, is still in it
Classify_recycled_result ==
  /\ pc = "classify"
  /\ LET tokens == [ i \in 1..Len(word_tokens) |->
                       classify(package, word_tokens[i].text, word_tokens[i].start,
                                word_tokens[i].end, None) ]
         made == IF result = NoResult
                 THEN ParseResult(tokens)
                 ELSE [ result EXCEPT !.tokens = tokens, !.notes = << >> ]
     IN  result' = [ made EXCEPT !.notes =
                       Append(@, "Sentence length: " \o ToString(Len(sentence))
                                   \o " chars, " \o ToString(Len(tokens)) \o " tokens") ]
  /\ pc' = "detect_sentence_type"
  /\ trace' = Append(trace, "classify")
  /\ UNCHANGED << pool, package, parsers, calls, self, sentence, word_tokens, vi, exc, history >>

\* tokens = [classify(word, start, end) ...]; result = ParseResult(tokens=tokens)
\* and the note on the sentence length
Classify ==
  /\ pc = "classify"
  /\ LET tokens == [ i \in 1..Len(word_tokens) |->
                       classify(package, word_tokens[i].text, word_tokens[i].start,
                                word_tokens[i].end, None) ]
     IN  result' = [ ParseResult(tokens) EXCEPT !.notes =
                       Append(@, "Sentence length: " \o ToString(Len(sentence))
                                   \o " chars, " \o ToString(Len(tokens)) \o " tokens") ]
  /\ pc' = "detect_sentence_type"
  /\ trace' = Append(trace, "classify")
  /\ UNCHANGED << pool, package, parsers, calls, self, sentence, word_tokens, vi, exc, history >>

\* if self.config.detect_sentence_type: result.sentence_type = ...
DetectSentenceType ==
  /\ pc = "detect_sentence_type"
  /\ result' = IF config.detect_sentence_type
               THEN [ result EXCEPT !.sentence_type = detect_sentence_type(result.tokens) ]
               ELSE result
  /\ pc' = "find_verb_phrase"
  /\ trace' = Append(trace, "detect_sentence_type")
  /\ UNCHANGED << pool, package, parsers, calls, self, sentence, word_tokens, vi, exc, history >>

\* result.verb_phrase = self._find_verb_phrase(tokens); without a verb phrase
\* parse warns and returns
FindVerbPhrase ==
  /\ pc = "find_verb_phrase"
  /\ trace' = Append(trace, "find_verb_phrase")
  /\ LET verb_phrase == find_verb_phrase(result.tokens)
         found == [ result EXCEPT !.verb_phrase = verb_phrase ]
     IN  IF verb_phrase = NoPhrase
         THEN Return([ found EXCEPT !.warnings = Append(@, "No finite verb found in sentence") ])
         ELSE /\ result' = found
              /\ pc' = "find_subject"
              /\ UNCHANGED << exc, history >>
  /\ UNCHANGED << pool, package, parsers, calls, self, sentence, word_tokens, vi >>

\* result.subject = self._find_subject(tokens, verb_phrase)
FindSubject ==
  /\ pc = "find_subject"
  /\ result' = [ result EXCEPT !.subject = find_subject(result.tokens, result.verb_phrase) ]
  /\ pc' = "find_object"
  /\ trace' = Append(trace, "find_subject")
  /\ UNCHANGED << pool, package, parsers, calls, self, sentence, word_tokens, vi, exc, history >>

\* result.object_phrase = self._find_object(tokens, verb_phrase)
FindObject ==
  /\ pc = "find_object"
  /\ result' = [ result EXCEPT !.object_phrase = find_object(result.tokens, result.verb_phrase) ]
  /\ pc' = "determine_voice"
  /\ trace' = Append(trace, "find_object")
  /\ UNCHANGED << pool, package, parsers, calls, self, sentence, word_tokens, vi, exc, history >>

\* parse that goes from the voice straight to validate
DetermineVoice_then_validate ==
  /\ pc = "determine_voice"
  /\ result' = [ result EXCEPT !.voice =
                   determine_voice(config, result.tokens, result.verb_phrase,
                                   result.object_phrase) ]
  /\ pc' = "validate"
  /\ vi' = 1
  /\ trace' = Append(trace, "determine_voice")
  /\ UNCHANGED << pool, package, parsers, calls, self, sentence, word_tokens, exc, history >>

\* result.voice = self._determine_voice(tokens, verb_phrase, object_phrase)
DetermineVoice ==
  /\ pc = "determine_voice"
  /\ result' = [ result EXCEPT !.voice =
                   determine_voice(config, result.tokens, result.verb_phrase,
                                   result.object_phrase) ]
  /\ pc' = "determine_tense"
  /\ trace' = Append(trace, "determine_voice")
  /\ UNCHANGED << pool, package, parsers, calls, self, sentence, word_tokens, vi, exc, history >>

\* if self.config.detect_tense and verb_phrase: result.tense = ...
DetermineTense ==
  /\ pc = "determine_tense"
  /\ result' = IF config.detect_tense /\ result.verb_phrase # NoPhrase
               THEN [ result EXCEPT !.tense = determine_tense(result.verb_phrase) ]
               ELSE result
  /\ pc' = "validate"
  /\ vi' = 1
  /\ trace' = Append(trace, "determine_tense")
  /\ UNCHANGED << pool, package, parsers, calls, self, sentence, word_tokens, exc, history >>

\* self.validator.validate(result), one "if ...: self._check_...()" at a time;
\* reading a field the config does not have is an AttributeError; after the
\* last check parse returns the result
Validate ==
  /\ pc = "validate"
  /\ trace' = IF vi = 1 THEN Append(trace, "validate") ELSE trace
  /\ LET checks == VALIDATE(package)
         gate == checks[vi].gate
         checked == IF config[gate]
                    THEN RunCheck(package, config, checks[vi].check, result)
                    ELSE result
     IN  IF gate \notin DOMAIN config
         THEN Raise("AttributeError", result) /\ vi' = vi
         ELSE IF vi = Len(checks)
         THEN Return(checked) /\ vi' = vi
         ELSE /\ result' = checked
              /\ vi' = vi + 1
              /\ UNCHANGED << pc, exc, history >>
  /\ UNCHANGED << pool, package, parsers, calls, self, sentence, word_tokens >>

\* the client runs OrthographyValidator(config).validate(result) on the result
\* it was returned
OrthographyValidate ==
  /\ pc = "returned"
  /\ result' = ortho_validate(config, result)
  /\ pc' = "validated"
  /\ UNCHANGED << pool, package, parsers, calls, self, sentence, word_tokens, vi, exc, trace, history >>

\* the client runs PunctuationValidator(config).validate(result) on the result it
\* was returned; tokens[-1] of a result without tokens is an IndexError
PunctuationValidate ==
  /\ pc = "returned"
  /\ IF ~config.enforce_punctuation_rules \/ ~config.enforce_period_rules
     THEN result' = result /\ pc' = "validated" /\ exc' = exc
     ELSE IF result.tokens = << >>
     THEN result' = result /\ pc' = "raised" /\ exc' = "IndexError"
     ELSE result' = check_period_rules(result) /\ pc' = "validated" /\ exc' = exc
  /\ UNCHANGED << pool, package, parsers, calls, self, sentence, word_tokens, vi, trace, history >>

\* the client runs GrammarRuleValidator(config).validate(result) on a result that
\* parse returned without validating it (no verb phrase was found); the checks
\* then run one at a time as in Validate
GrammarValidate ==
  /\ pc = "returned"
  /\ result.verb_phrase = NoPhrase
  /\ trace[Len(trace)] # "validate"
  /\ pc' = "validate"
  /\ vi' = 1
  /\ UNCHANGED << pool, package, parsers, calls, self, sentence, word_tokens, result, exc, trace, history >>

\* the caller changes the result it was returned, in place: a flag appended to
\* result.flags, a key written to result.rule_checks, the first Token's text
\* assigned, result.notes cleared; the change is logged in history
Mutate ==
  /\ pc = "returned"
  /\ \A i \in 1..Len(result.flags) : result.flags[i].rule # "CLIENT"
  /\ result' = [ result EXCEPT
                   !.flags = Append(@, Flag("CLIENT", "changed by the caller", 0, 0)),
                   !.rule_checks = ("CLIENT" :> FALSE) @@ @,
                   !.tokens = IF @ = << >> THEN @ ELSE [ @ EXCEPT ![1].text = "CLIENT" ],
                   !.notes = << >> ]
  /\ history' = Append(history, [ client |-> "mutated", result |-> result' ])
  /\ UNCHANGED << pool, package, parsers, calls, self, sentence, pc, word_tokens, vi, exc, trace >>

\* the locals of a parse call that has just started on sentence t
Started(t) ==
  [ sentence |-> t, pc |-> "tokenize", word_tokens |-> << >>, result |-> NoResult,
    vi |-> 0, exc |-> None, trace |-> << >> ]

\* the locals of the call that runs
Running ==
  [ sentence |-> sentence, pc |-> pc, word_tokens |-> word_tokens, result |-> result,
    vi |-> vi, exc |-> exc, trace |-> trace ]

\* parse_batch(texts, parallel=True): pool.map(self.parse, texts) starts one
\* call of self.parse per text, all on the one parser; the first one runs
ParseBatch ==
  /\ pc = "ready"
  /\ pool = NoPool
  /\ \E texts \in [ 1..num_processes -> BatchTexts ] :
       /\ pool' = [ texts |-> texts, running |-> 1,
                    frames |-> [ i \in 1..num_processes |-> Started(texts[i]) ] ]
       /\ sentence' = texts[1]
  /\ calls' = num_processes
  /\ pc' = "tokenize"
  /\ UNCHANGED << package, parsers, self, word_tokens, result, vi, exc, trace, history >>

\* a scheduler that keeps result in one place for all the calls of the pool,
\* as a field of the parser would be: the call that runs next goes on with the
\* result the call before it left
Switch_shared_result ==
  /\ pool # NoPool
  /\ \E w \in DOMAIN pool.frames \ { pool.running } :
       /\ pool.frames[w].pc \notin { "returned", "raised" }
       /\ pool' = [ pool EXCEPT !.running = w, !.frames[pool.running] = Running ]
       /\ sentence' = pool.frames[w].sentence
       /\ pc' = pool.frames[w].pc
       /\ word_tokens' = pool.frames[w].word_tokens
       /\ vi' = pool.frames[w].vi
       /\ exc' = pool.frames[w].exc
       /\ trace' = pool.frames[w].trace
  /\ UNCHANGED << package, parsers, calls, self, history, result >>

\* between two steps of the call that runs, another call of the pool that has
\* not ended runs on: every call has its own locals (sentence, word_tokens,
\* result, the position in parse and in validate), the parser is the same
Switch ==
  /\ pool # NoPool
  /\ \E w \in DOMAIN pool.frames \ { pool.running } :
       /\ pool.frames[w].pc \notin { "returned", "raised" }
       /\ pool' = [ pool EXCEPT !.running = w, !.frames[pool.running] = Running ]
       /\ sentence' = pool.frames[w].sentence
       /\ pc' = pool.frames[w].pc
       /\ word_tokens' = pool.frames[w].word_tokens
       /\ result' = pool.frames[w].result
       /\ vi' = pool.frames[w].vi
       /\ exc' = pool.frames[w].exc
       /\ trace' = pool.frames[w].trace
  /\ UNCHANGED << package, parsers, calls, self, history >>

\* one call of one parser, then possibly one of the standalone validators
Next ==
  \/ Call(Sentences, 1)
  \/ Tokenize
  \/ Classify
  \/ DetectSentenceType
  \/ FindVerbPhrase
  \/ FindSubject
  \/ FindObject
  \/ DetermineVoice
  \/ DetermineTense
  \/ Validate
  \/ OrthographyValidate
  \/ PunctuationValidate

Spec == Init /\ [][Next]_vars

\* calls in a row on parsers constructed side by side
NextCalls ==
  \/ Call(RepeatTexts, MaxCalls)
  \/ Tokenize
  \/ Classify
  \/ DetectSentenceType
  \/ FindVerbPhrase
  \/ FindSubject
  \/ FindObject
  \/ DetermineVoice
  \/ DetermineTense
  \/ Validate

SpecCalls == InitCalls /\ [][NextCalls]_vars

\* calls in a row on parsers constructed side by side, the caller changing the
\* results it holds between the calls
NextAlias ==
  \/ Call(RepeatTexts, MaxCalls)
  \/ Tokenize
  \/ Classify
  \/ DetectSentenceType
  \/ FindVerbPhrase
  \/ FindSubject
  \/ FindObject
  \/ DetermineVoice
  \/ DetermineTense
  \/ Validate
  \/ Mutate

SpecAlias == InitCalls /\ [][NextAlias]_vars

\* one parser constructed with one of the presets, as KirkhamParser, the class
\* that has parse_batch
InitBatch ==
  /\ package = "monolith"
  /\ parsers \in { << DEFAULT_CONFIG >>, << modern_permissive >> }
  /\ Constructed

\* a batch parsed in parallel: the calls of the pool, interleaved at every step
NextBatch ==
  \/ ParseBatch
  \/ Switch
  \/ Tokenize
  \/ Classify
  \/ DetectSentenceType
  \/ FindVerbPhrase
  \/ FindSubject
  \/ FindObject
  \/ DetermineVoice
  \/ DetermineTense
  \/ Validate

SpecBatch == InitBatch /\ [][NextBatch]_vars

\* one call of one parser; a result returned without validation is given to the
\* grammar validator
NextVal ==
  \/ Call(Sentences, 1)
  \/ Tokenize
  \/ Classify
  \/ DetectSentenceType
  \/ FindVerbPhrase
  \/ FindSubject
  \/ FindObject
  \/ DetermineVoice
  \/ DetermineTense
  \/ Validate
  \/ GrammarValidate

SpecVal == Init /\ [][NextVal]_vars

\* the tokenizer and the classifier on single words
NextWord ==
  \/ Call(WordTexts, 1)
  \/ Tokenize
  \/ Classify

SpecWord == InitTok /\ [][NextWord]_vars

\* the tokenizer and the classifier on raw texts
NextTok ==
  \/ Call(RawTexts, 1)
  \/ Tokenize
  \/ Classify

SpecTok == InitTok /\ [][NextTok]_vars

\* ------------------------------------------------------------------------
\* Properties
\* ------------------------------------------------------------------------
\* r.flags has a flag of rule id rule
HasFlag(r, rule) == \E i \in 1..Len(r.flags) : r.flags[i].rule = rule

\* C1: for any text and any configuration no stage raises: the parse and every
\* validator that runs on its result end without an exception.
C1_NeverRaises == exc = None

\* C2: rule independence: whenever the config field of a rule id is disabled,
\* the result holds no flag of that rule id, whatever the other fields are.
C2_RuleIndependence ==
  result # NoResult =>
  \A n \in { "1", "2", "3", "4", "8", "12", "13", "18", "19", "20", "21", "25", "28",
             "29", "30", "31" } :
    ~config["enforce_rule_" \o n \o "_strict"] => ~HasFlag(result, "RULE_" \o n)

\* C4: offset correctness: every triple of the tokenizer and every Token of the
\* result has start <= end, and the text from start to end is the token's text.
C4_OffsetCorrectness ==
  LET Correct(tokens) ==
        \A i \in 1..Len(tokens) :
          /\ 0 <= tokens[i].start
          /\ tokens[i].start <= tokens[i].end
          /\ tokens[i].end <= Len(sentence)
          /\ Slice(sentence, tokens[i].start, tokens[i].end) = tokens[i].text
  IN  /\ pc \notin { "ready", "tokenize" } => Correct(word_tokens)
      /\ pc \notin { "ready", "tokenize", "classify" } => Correct(result.tokens)

\* C4 happens: a classified text of two tokens with a gap in front of each
C4_Witness ==
  /\ pc = "detect_sentence_type"
  /\ Len(result.tokens) = 2
  /\ result.tokens[1].start > 0
  /\ result.tokens[2].start > result.tokens[1].end
  /\ result.tokens[2].end = Len(sentence)

\* C5: ordering and non-overlap: the start offsets of the tokens increase
\* strictly, and every token ends at or before the start of the next.
C5_OrderedNonOverlapping ==
  LET Ordered(tokens) ==
        \A i \in 1..(Len(tokens) - 1) :
          /\ tokens[i].start < tokens[i + 1].start
          /\ tokens[i].end <= tokens[i + 1].start
  IN  /\ pc \notin { "ready", "tokenize" } => Ordered(word_tokens)
      /\ pc \notin { "ready", "tokenize", "classify" } => Ordered(result.tokens)

\* C5 happens: a token of several characters that the next token touches
C5_Witness ==
  /\ pc = "classify"
  /\ Len(word_tokens) >= 2
  /\ Len(word_tokens[1].text) >= 2
  /\ word_tokens[1].end = word_tokens[2].start

\* C6: coverage: every character of the text is in exactly one token or is
\* white space outside the tokens.
C6_Coverage ==
  pc \notin { "ready", "tokenize" } =>
    \A k \in 1..Len(sentence) :
      LET covering == { i \in 1..Len(word_tokens) :
                          word_tokens[i].start < k /\ k <= word_tokens[i].end }
      IN  \/ Cardinality(covering) = 1
          \/ covering = { } /\ Ch(sentence, k) \in { " ", "\t", "\n", "\r", "\f" }

\* C3: idempotence: two calls with the same text on parsers of the same
\* configuration, the same parser or not, whatever was parsed in between, end
\* the same way with results of identical content.
C3_Idempotence ==
  \A i, j \in 1..Len(history) :
    /\ history[i].text = history[j].text
    /\ parsers[history[i].parser] = parsers[history[j].parser]
    => /\ history[i].exc = history[j].exc
       /\ history[i].result = history[j].result

\* C3 happens: the same sentence returned with flags by two parsers of one
\* configuration, another sentence parsed in between
C3_Witness ==
  \E i, j \in 1..Len(history) :
    /\ i + 1 < j
    /\ history[i].text = history[j].text
    /\ history[i + 1].text # history[i].text
    /\ history[i].parser # history[j].parser
    /\ parsers[history[i].parser] = parsers[history[j].parser]
    /\ history[j].exc = None
    /\ history[j].result.flags # << >>

\* the order of the stages as the pipeline is described
PIPELINE ==
  << "tokenize", "classify", "detect_sentence_type", "find_verb_phrase", "find_subject",
     "find_object", "determine_voice", "determine_tense", "validate" >>

\* a is the beginning of b
IsPrefix(a, b) == Len(a) <= Len(b) /\ SubSeq(b, 1, Len(a)) = a

\* the parse call is over
Ended == pc \in { "returned", "raised", "validated" }

C10_AbsenceNeverRaises ==
  \A i \in 1..Len(history) :
    \/ history[i].result.verb_phrase = NoPhrase
    \/ history[i].result.subject = NoPhrase
    \/ history[i].result.object_phrase = NoPhrase
    => history[i].exc = None

\* what a check writes: the key of its rule-check entry (None if it writes
\* none), the rule id of its flags, and how the messages of its flags begin and
\* end
Signature(check) ==
  CASE check = "rule_1" ->
         [ key |-> "RULE_1", rule |-> "RULE_1", prefix |-> "Article '", suffix |-> "'" ]
    [] check = "rule_2" ->
         [ key |-> "RULE_2", rule |-> "RULE_2", prefix |-> "Article 'the'", suffix |-> "noun" ]
    [] check = "rule_3" ->
         [ key |-> "RULE_3", rule |-> "RULE_3", prefix |-> "Verb phrase", suffix |-> ")" ]
    [] check = "rule_4" ->
         [ key |-> "RULE_4", rule |-> "RULE_4", prefix |-> "Verb '", suffix |-> "person" ]
    [] check = "rule_5" ->
         [ key |-> "RULE_5", rule |-> "RULE_5", prefix |-> "", suffix |-> "" ]
    [] check = "rule_12" ->
         [ key |-> "rule_12_possessive_governed", rule |-> "RULE_12",
           prefix |-> "Possessive '", suffix |-> "noun" ]
    [] check = "rule_18" ->
         [ key |-> None, rule |-> "RULE_18", prefix |-> "Adjective '", suffix |-> "qualify" ]
    [] check = "rule_20" ->
         [ key |-> "RULE_20", rule |-> "RULE_20", prefix |-> "Transitive verb", suffix |-> ")" ]
    [] check = "rule_31" ->
         [ key |-> None, rule |-> "RULE_31", prefix |-> "Preposition '",
           suffix |-> "' lacks object" ]
    [] check = "prep_object_case" ->
         [ key |-> None, rule |-> "RULE_31", prefix |-> "Preposition '", suffix |-> "'" ]
    [] check = "copula_predicative_case" ->
         [ key |-> None, rule |-> "RULE_4", prefix |-> "After a form", suffix |-> "'" ]
    [] check = "governed_infinitives" ->
         [ key |-> None, rule |-> "RULE_20", prefix |-> "Subject of governed", suffix |-> "'" ]

\* the rule ids of the orthography checks, in the order of ORTHO_CHECKS
ORTHO_RULES ==
  << "ORTHO_I", "ORTHO_II", "ORTHO_III", "ORTHO_IV", "ORTHO_V", "ORTHO_VI", "ORTHO_VII",
     "ORTHO_VIII", "ORTHO_IX", "ORTHO_X" >>

\* the flag is one that the check with signature sig appends
FlagOf(sig, flag) ==
  /\ flag.rule = sig.rule
  /\ Len(flag.message) >= Len(sig.prefix)
  /\ SubSeq(flag.message, 1, Len(sig.prefix)) = sig.prefix
  /\ EndsWith(flag.message, sig.suffix)

\* r holds a rule-check entry or a flag written by the check with signature sig
Contributed(sig, r) ==
  \/ sig.key \in DOMAIN r.rule_checks
  \/ \E i \in 1..Len(r.flags) : FlagOf(sig, r.flags[i])

FlagOrder(flag) ==
  LET checks == VALIDATE(package)
      hits == { k \in 1..Len(checks) : FlagOf(Signature(checks[k].check), flag) }
  IN  IF hits = { } THEN Len(checks) + 1 ELSE CHOOSE k \in hits : TRUE

\* a step of validation keeps the flags that are there as the beginning of the
\* flag list
FlagsKept ==
  (pc \in { "validate", "returned" } /\ pc' # "tokenize")
    => IsPrefix(result.flags, result'.flags)

\* the flags of a result are in the order in which their checks run
FlagsInCheckOrder ==
  result # NoResult =>
    \A i, j \in 1..Len(result.flags) :
      i < j => FlagOrder(result.flags[i]) <= FlagOrder(result.flags[j])

\* C9: flags are append-only: during validation every step keeps the flags that
\* are there as the beginning of the flag list, and the flags of a result are
\* in the order in which their checks run.
C9_AppendOnly == [][FlagsKept]_vars /\ []FlagsInCheckOrder

\* C9 happens: a validated result holds the flags of two grammar checks and,
\* after them, a flag of a standalone validator
C9_Witness ==
  /\ pc = "validated"
  /\ Len(result.flags) >= 3
  /\ FlagOrder(result.flags[1]) < FlagOrder(result.flags[2])
  /\ FlagOrder(result.flags[2]) < FlagOrder(result.flags[3])
  /\ FlagOrder(result.flags[Len(result.flags)]) > Len(VALIDATE(package))

\* the check depends on a phrase that the analysis r does not have: rule 3 and
\* rule 20 on the verb phrase, rule 4 on the subject and the verb phrase
CannotApply(check, r) ==
  CASE check = "rule_3" -> r.verb_phrase = NoPhrase
    [] check = "rule_4" -> r.subject = NoPhrase \/ r.verb_phrase = NoPhrase
    [] check = "rule_20" -> r.verb_phrase = NoPhrase

\* C11: a check that cannot apply to the analysis defaults to pass: the result
\* holds no false entry under its rule id and no flag of the check.
C11_InapplicableChecksPass ==
  result # NoResult =>
    \A check \in { "rule_3", "rule_4", "rule_20" } :
      CannotApply(check, result) =>
        LET sig == Signature(check)
        IN  /\ sig.key \in DOMAIN result.rule_checks => result.rule_checks[sig.key]
            /\ \A i \in 1..Len(result.flags) : ~FlagOf(sig, result.flags[i])

\* the values of the enumeration RuleID: the closed set of rule identifiers
RuleID ==
  { "RULE_1", "RULE_2", "RULE_3", "RULE_4", "RULE_5", "RULE_6", "RULE_7", "RULE_8",
    "RULE_9", "RULE_10", "RULE_11", "RULE_12", "RULE_13", "RULE_14", "RULE_15",
    "RULE_16", "RULE_17", "RULE_18", "RULE_19", "RULE_20", "RULE_21", "RULE_22",
    "RULE_23", "RULE_24", "RULE_25", "RULE_26", "RULE_27", "RULE_28", "RULE_30",
    "RULE_31", "RULE_32", "RULE_33", "RULE_34", "RULE_35", "ORTHO_I", "ORTHO_II",
    "ORTHO_III", "ORTHO_IV", "ORTHO_V", "ORTHO_VI", "ORTHO_VII", "ORTHO_VIII",
    "ORTHO_IX", "ORTHO_X", "COMMA_1", "COMMA_3", "COMMA_4", "COMMA_5", "COMMA_6",
    "COMMA_7", "COMMA_8", "COMMA_9", "COMMA_10", "SEMICOLON_1", "SEMICOLON_2",
    "COLON_1", "COLON_2", "PERIOD_RULE", "DASH_RULE", "EXCLAMATION_RULE",
    "APOSTROPHE_RULE", "QUOTATION_RULE" }

\* the rule ids of the checks that the validators of the package run
CheckRuleIds ==
  { Signature(VALIDATE(package)[k].check).rule : k \in 1..Len(VALIDATE(package)) }
    \cup { ORTHO_RULES[k] : k \in 1..Len(ORTHO_RULES) } \cup { "PERIOD_RULE" }

\* C12: the rule-check map is keyed by rule id: every key of the map is one of
\* the rule identifiers, and it is the rule id of one of the checks that write
\* the map.
C12_KeysAreRuleIds ==
  result # NoResult =>
    \A key \in DOMAIN result.rule_checks : key \in RuleID /\ key \in CheckRuleIds

\* the span runs from the start of a token of r to the end of the same or of a
\* later token
CoversTokens(r, span) ==
  \E i, j \in 1..Len(r.tokens) :
    /\ i <= j
    /\ span.start = r.tokens[i].start
    /\ span.end = r.tokens[j].end

\* C13 as stated: the span of every flag has start <= end and covers exactly
\* one token or runs from the start of one token to the end of a second.
C13_EverySpanCoversTokens ==
  result # NoResult =>
    \A i \in 1..Len(result.flags) :
      /\ result.flags[i].span.start <= result.flags[i].span.end
      /\ CoversTokens(result, result.flags[i].span)

\* C13: the span of every flag has start <= end; the span of a flag of a grammar
\* or orthography check covers exactly one token or runs from the start of one
\* token to the end of a later one; the span of the flag of the period check is
\* the empty span at the end of the last token.
C13_FlagSpans ==
  result # NoResult =>
    \A i \in 1..Len(result.flags) :
      LET flag == result.flags[i]
          last == result.tokens[Len(result.tokens)]
      IN  /\ flag.span.start <= flag.span.end
          /\ IF flag.rule = "PERIOD_RULE"
             THEN flag.span = [ start |-> last.end, end |-> last.end ]
             ELSE CoversTokens(result, flag.span)

\* C13 happens: a validated result holds a flag whose span runs over more than
\* one token and the flag of the period check
C13_Witness ==
  /\ pc = "validated"
  /\ HasFlag(result, "PERIOD_RULE")
  /\ \E i \in 1..Len(result.flags) :
       /\ result.flags[i].rule # "PERIOD_RULE"
       /\ \A k \in 1..Len(result.tokens) :
            result.flags[i].span # [ start |-> result.tokens[k].start,
                                     end |-> result.tokens[k].end ]

\* the phrase is a non-empty contiguous slice of tokens, in source order, and its
\* head index (0-based) is within the slice
WellFormedPhrase(phrase, tokens) ==
  LET n == Len(phrase.tokens)
  IN  /\ n > 0
      /\ \E a \in 1..Len(tokens) :
           /\ a + n - 1 <= Len(tokens)
           /\ SubSeq(tokens, a, a + n - 1) = phrase.tokens
      /\ \A k \in 1..(n - 1) : phrase.tokens[k].start < phrase.tokens[k + 1].start
      /\ phrase.head_index \in 0..(n - 1)

\* C14: phrase invariant: the subject, the verb phrase and the object of a
\* result are non-empty contiguous slices of the result's tokens in source
\* order, each with its head index within the slice.
C14_PhraseInvariant ==
  result # NoResult =>
    /\ result.subject # NoPhrase => WellFormedPhrase(result.subject, result.tokens)
    /\ result.verb_phrase # NoPhrase => WellFormedPhrase(result.verb_phrase, result.tokens)
    /\ result.object_phrase # NoPhrase => WellFormedPhrase(result.object_phrase, result.tokens)

\* C14 happens: a returned result has a verb phrase, an object and a subject of
\* several tokens that does not start the sentence
C14_Witness ==
  /\ pc = "returned"
  /\ result.verb_phrase # NoPhrase
  /\ result.object_phrase # NoPhrase
  /\ result.subject # NoPhrase
  /\ Len(result.subject.tokens) > 1
  /\ result.subject.tokens[1].start > 0

\* the voice of the result has been determined
VoiceDetermined ==
  /\ pc \in { "determine_tense", "validate", "returned", "raised", "validated" }
  /\ result # NoResult
  /\ result.verb_phrase # NoPhrase

\* the verb phrase of r holds an auxiliary of the passive: a form of "be", or a
\* form of "get" when get-passive detection is configured
PassiveAuxiliary(cfg, r) ==
  \E i \in 1..Len(r.verb_phrase.tokens) :
    LET auxiliary == Get(r.verb_phrase.tokens[i].features, "auxiliary")
    IN  auxiliary = "be" \/ (cfg.detect_get_passive /\ auxiliary = "get")

\* a past participle is in the verb phrase of r or among the two tokens that
\* follow it
ParticipleNear(r) ==
  LET vp == r.verb_phrase.tokens
      last == CHOOSE k \in 1..Len(r.tokens) : r.tokens[k].start = vp[Len(vp)].start
  IN  \/ \E i \in 1..Len(vp) : Get(vp[i].features, "participle") = "past"
      \/ \E k \in { last + 1, last + 2 } :
           k <= Len(r.tokens) /\ Get(r.tokens[k].features, "participle") = "past"

TenseDetermined ==
  /\ pc \in { "validate", "returned", "raised", "validated" }
  /\ result # NoResult
  /\ result.verb_phrase # NoPhrase
  /\ config.detect_tense

\* the words of the verb phrase of r, in lower case
VerbWords(r) == { r.verb_phrase.tokens[i].lemma : i \in 1..Len(r.verb_phrase.tokens) }

\* the verb phrase of r holds "will" or "shall"
FuturePattern(r) == VerbWords(r) \cap { "will", "shall" } # { }

\* the verb phrase of r holds "have", "has" or "had" and a past participle
PerfectPattern(r) ==
  /\ VerbWords(r) \cap { "have", "has", "had" } # { }
  /\ \E i \in 1..Len(r.verb_phrase.tokens) :
       Get(r.verb_phrase.tokens[i].features, "participle") = "past"

\* C16: simple tense: without "will"/"shall" and without "have"/"has"/"had" plus
\* a past participle in the verb phrase, the tense is past whenever the last
\* token of the verb phrase ends in "ed", is a known past participle or an
\* irregular past form, or is "was" or "were"; otherwise it is present.
C16_SimpleTense ==
  TenseDetermined /\ ~FuturePattern(result) /\ ~PerfectPattern(result) =>
    LET last == result.verb_phrase.tokens[Len(result.verb_phrase.tokens)].lemma
        past == \/ EndsWith(last, "ed")
                \/ last \in IRREGULAR_PARTICIPLES
                \/ last \in irregular_past
                \/ last \in { "was", "were" }
    IN  result.tense = IF past THEN "past" ELSE "present"

\* C17: compound tense: with "will" or "shall" in the verb phrase the tense is
\* future perfect when "have" or "has" is in the phrase too and future
\* otherwise; else, with "have", "has" or "had" and a past participle in the
\* phrase, it is past perfect when "had" is there and present perfect
\* otherwise; the form of the last token does not matter.
C17_CompoundTense ==
  TenseDetermined =>
    /\ FuturePattern(result) =>
         result.tense = IF VerbWords(result) \cap { "have", "has" } # { }
                        THEN "future_perfect" ELSE "future"
    /\ ~FuturePattern(result) /\ PerfectPattern(result) =>
         result.tense = IF "had" \in VerbWords(result)
                        THEN "past_perfect" ELSE "present_perfect"

\* C17 happens: a perfect tense of a verb phrase whose last token is a past
\* participle
C17_Witness ==
  /\ TenseDetermined
  /\ pc = "returned"
  /\ result.tense \in { "present_perfect", "past_perfect", "future_perfect" }
  /\ result.verb_phrase.tokens[Len(result.verb_phrase.tokens)].lemma
       \in IRREGULAR_PARTICIPLES

\* the sentence type of the result has been detected
SentenceTypeDetected ==
  /\ pc \notin { "ready", "tokenize", "classify", "detect_sentence_type" }
  /\ result # NoResult
  /\ config.detect_sentence_type

\* the token is a tensed auxiliary or a modal: a modal verb, or a form of be,
\* have or do that is not a participle
TensedAuxiliary(token) ==
  /\ token.pos = "verb"
  /\ \/ token.lemma \in MODAL_VERBS
     \/ /\ token.lemma \in AUXILIARY_BE \cup AUXILIARY_HAVE \cup AUXILIARY_DO
        /\ "participle" \notin DOMAIN token.features

\* the sentence type by the first rule that applies
FirstApplicableType(tokens) ==
  LET n == Len(tokens)
  IN  IF n = 0 THEN "declarative"
      ELSE IF tokens[n].text = "?" THEN "interrogative"
      ELSE IF tokens[n].text = "!"
      THEN IF /\ tokens[1].lemma \in { "what", "how" }
              /\ n >= 2
              /\ tokens[2].pos \in { "article", "adjective" }
           THEN "exclamatory" ELSE "imperative"
      ELSE IF tokens[1].lemma \in { "who", "what", "where", "when", "why", "how",
                                     "which", "whom", "whose" }
      THEN "interrogative"
      ELSE IF n >= 2 /\ TensedAuxiliary(tokens[1]) /\ tokens[2].pos = "pronoun"
      THEN "interrogative"
      ELSE IF tokens[1].pos = "verb" /\ is_base_verb_shape(tokens[1].lemma)
      THEN "imperative"
      ELSE "declarative"

\* C18: the sentence type is decided by the first rule that applies: a terminal
\* "?" gives interrogative; a terminal "!" gives exclamatory after an opening
\* "what"/"how" and an article or adjective, else imperative; a WH-word in
\* front gives interrogative; a tensed auxiliary or modal in front of a pronoun
\* gives interrogative; a verb of bare shape in front gives imperative;
\* anything else is declarative.
C18_SentenceType ==
  SentenceTypeDetected => result.sentence_type = FirstApplicableType(result.tokens)

\* the position in r.tokens of the token after the verb phrase of r
AfterVerbPhrase(r) ==
  LET vp == r.verb_phrase.tokens
  IN  (CHOOSE k \in 1..Len(r.tokens) : r.tokens[k].start = vp[Len(vp)].start) + 1

\* an objective-case pronoun immediately follows the verb phrase of r, which
\* holds a be-auxiliary
ObjectiveAfterCopula(r) ==
  /\ r.verb_phrase # NoPhrase
  /\ \E i \in 1..Len(r.verb_phrase.tokens) :
       Get(r.verb_phrase.tokens[i].features, "auxiliary") = "be"
  /\ AfterVerbPhrase(r) <= Len(r.tokens)
  /\ r.tokens[AfterVerbPhrase(r)].pos = "pronoun"
  /\ r.tokens[AfterVerbPhrase(r)].case = "objective"

\* r holds a flag of the copula check on the token after its verb phrase
CopulaFlag(r) ==
  \E i \in 1..Len(r.flags) :
    /\ FlagOf(Signature("copula_predicative_case"), r.flags[i])
    /\ r.flags[i].span = [ start |-> r.tokens[AfterVerbPhrase(r)].start,
                           end |-> r.tokens[AfterVerbPhrase(r)].end ]

\* C19: copula predicative case: when the parse is over and an objective-case
\* pronoun immediately follows a verb phrase with a be-auxiliary, the result
\* holds a flag on that pronoun unless informal pronouns are allowed (the
\* extended checks being enabled), and holds no such flag when they are allowed.
C19_CopulaCase ==
  Ended /\ ObjectiveAfterCopula(result) =>
    /\ ~config.allow_informal_pronouns /\ config.enable_extended_validation
         => CopulaFlag(result)
    /\ config.allow_informal_pronouns => ~CopulaFlag(result)

\* an entry of history that a parse call wrote
IsCall(h) == "text" \in DOMAIN h

\* an entry of history that the caller's change of a result wrote
IsMutation(h) == "client" \in DOMAIN h

\* nothing of the caller's change is in the result r
Untouched(r) ==
  /\ ~HasFlag(r, "CLIENT")
  /\ "CLIENT" \notin DOMAIN r.rule_checks
  /\ \A i \in 1..Len(r.tokens) : r.tokens[i].text # "CLIENT"

\* what calls return does not depend on what the caller did to the results of
\* other calls
FreshResults ==
  \A i \in 1..Len(history) :
    IsCall(history[i]) =>
      /\ Untouched(history[i].result)
      /\ \A j \in 1..Len(history) :
           /\ IsCall(history[j])
           /\ history[i].text = history[j].text
           /\ parsers[history[i].parser] = parsers[history[j].parser]
           => /\ history[i].exc = history[j].exc
              /\ history[i].result = history[j].result

\* C20: no cross-call aliasing: over any sequence of parse calls no step
\* modifies a parser's ParserConfig (the Lexicon is a constant), and what a call
\* returns is fresh: it holds nothing of the changes the caller made to the
\* results of other calls, and equals what every other call with the same text
\* and configuration returned, before the change or after it.
C20_NoCrossCallAliasing == [][parsers' = parsers]_vars /\ []FreshResults

\* C20 happens: a call returned a result with flags, the caller changed it, and
\* a later call on the same parser with the same text returned
C20_Witness ==
  \E i, j, k \in 1..Len(history) :
    /\ i < j /\ j < k
    /\ IsCall(history[i]) /\ IsMutation(history[j]) /\ IsCall(history[k])
    /\ history[i].exc = None
    /\ history[i].result.flags # << >>
    /\ history[j].result.tokens = [ history[i].result.tokens EXCEPT ![1].text = "CLIENT" ]
    /\ history[k].parser = history[i].parser
    /\ history[k].text = history[i].text
    /\ history[k].exc = None

\* the locals of the i-th call of the pool
FrameOf(i) == IF i = pool.running THEN Running ELSE pool.frames[i]

\* the i-th call of the pool is over
Finished(i) == FrameOf(i).pc \in { "returned", "raised" }

\* C21: independent sentences parse in parallel without locking: however the
\* calls of a batch that share one parser are interleaved, the pool holds one
\* call per input text, in input order, and every call that is over ended as
\* parsing its text alone ends, with the same result: the parallel batch equals
\* the sequential one.
C21_ParallelEqualsSequential ==
  pool # NoPool =>
    /\ DOMAIN pool.frames = DOMAIN pool.texts
    /\ \A i \in DOMAIN pool.frames :
         /\ FrameOf(i).sentence = pool.texts[i]
         /\ Finished(i) =>
              LET alone == parse_alone(package, config, pool.texts[i])
              IN  /\ FrameOf(i).exc = alone.exc
                  /\ FrameOf(i).result = alone.result

\* C21 happens: a batch of two different sentences is over, both results with
\* flags, and the call started second ended first
C21_Witness ==
  /\ pool # NoPool
  /\ \A i \in DOMAIN pool.frames : Finished(i) /\ FrameOf(i).result.flags # << >>
  /\ pool.texts[1] # pool.texts[2]
  /\ Len(history) = 2
  /\ history[1].text = pool.texts[2]

\* the precedence class of a token of a verb phrase: 1 a modal, 2 a tensed
\* be/do/have auxiliary that is no participle, 3 a verb in "-s" or "-ed", 4 any
\* other token
AnchorClass(token) ==
  IF Truthy(token.features, "modal") THEN 1
  ELSE IF /\ Get(token.features, "auxiliary") \in { "be", "do", "have" }
          /\ Get(token.features, "participle") = None THEN 2
  ELSE IF token.pos = "verb" /\ EndsWithAny(token.text, { "s", "ed" }) THEN 3
  ELSE 4

\* C22: finite-verb anchor: in every result with a verb phrase the token taken
\* for subject-verb agreement is a token of the phrase of the highest
\* precedence class the phrase has (modal, then tensed non-participle
\* be/do/have, then a verb in "-s" or "-ed"), and the last verb of the chain
\* when the phrase has none of these; the flag of the agreement check names
\* that token.
C22_FiniteVerbAnchor ==
  result # NoResult /\ result.verb_phrase # NoPhrase =>
    LET vp == result.verb_phrase.tokens
        anchor == finite_verb_of_vp(result.verb_phrase)
    IN  /\ \E i \in 1..Len(vp) : vp[i] = anchor
        /\ \A i \in 1..Len(vp) : AnchorClass(anchor) <= AnchorClass(vp[i])
        /\ AnchorClass(anchor) = 4 => anchor = vp[Len(vp)]
        /\ \A k \in 1..Len(result.flags) :
             FlagOf(Signature("rule_4"), result.flags[k]) =>
               result.flags[k].message =
                 "Verb '" \o anchor.text \o "' does not agree with subject '"
                   \o head_token(result.subject).text \o "' in number/person"

\* C22 happens: a validated verb phrase whose first token is a verb in "-s" and
\* whose anchor is the modal after it, named by the RULE_4 flag
C22_Witness ==
  /\ pc = "returned"
  /\ result.verb_phrase # NoPhrase
  /\ Len(result.verb_phrase.tokens) = 2
  /\ AnchorClass(result.verb_phrase.tokens[1]) = 3
  /\ AnchorClass(result.verb_phrase.tokens[2]) = 1
  /\ finite_verb_of_vp(result.verb_phrase) = result.verb_phrase.tokens[2]
  /\ \E k \in 1..Len(result.flags) : FlagOf(Signature("rule_4"), result.flags[k])

\* the agreement check has run on r and its finite-verb anchor is one of the five
\* tensed forms of "be"
BeAnchorChecked(r) ==
  /\ r # NoResult
  /\ "RULE_4" \in DOMAIN r.rule_checks
  /\ finite_verb_of_vp(r.verb_phrase).lemma \in { "am", "is", "are", "was", "were" }

\* the form of "be" goes with the subject token: a subject without a number
\* counts as singular, one without a person as third person
BeAgrees(subject, form) ==
  LET singular == subject.number \in { None, "singular" }
      plural == subject.number = "plural"
      first == subject.person = "first"
      second == subject.person = "second"
      third == subject.person \in { None, "third" }
  IN  CASE form = "am" -> first /\ singular
        [] form = "is" -> third /\ singular
        [] form = "are" -> plural \/ second
        [] form = "was" -> singular /\ ~second
        [] form = "were" -> plural \/ second

\* r holds a flag of the subject-verb agreement check
AgreementFlag(r) == \E k \in 1..Len(r.flags) : FlagOf(Signature("rule_4"), r.flags[k])

\* C23: be-form agreement: when the agreement check has run and the anchor is a
\* form of "be", the check is recorded as passed exactly when "am" has a first
\* person singular subject, "is" a third person singular one, "are" and "were"
\* a plural or second person one, "was" a singular one that is not second
\* person; the result holds a subject-verb agreement flag exactly when the
\* check failed.
C23_BeAgreement ==
  BeAnchorChecked(result) =>
    LET passes == BeAgrees(head_token(result.subject),
                           finite_verb_of_vp(result.verb_phrase).lemma)
    IN  /\ result.rule_checks["RULE_4"] = passes
        /\ AgreementFlag(result) <=> ~passes

\* C23 happens: "was" after a second person subject, returned with the flag
C23_Witness ==
  /\ pc = "returned"
  /\ BeAnchorChecked(result)
  /\ finite_verb_of_vp(result.verb_phrase).lemma = "was"
  /\ head_token(result.subject).person = "second"
  /\ AgreementFlag(result)

\* a token the subject takes in on the left of its anchor: an article, an
\* adjective, a possessive-case token or an adverb-like token, never a
\* preposition
Absorbable(token) ==
  /\ token.pos # "preposition"
  /\ \/ token.pos \in { "article", "adjective" }
     \/ token.case = "possessive"
     \/ looks_adverb(token)

\* find_subject has run on r
SubjectSought(r) ==
  /\ r # NoResult
  /\ r.verb_phrase # NoPhrase
  /\ \E k \in 1..Len(trace) : trace[k] = "find_subject"

\* C24: subject finding: once the subject is sought, there is one exactly when
\* a NOUN or PRONOUN stands before the verb phrase; its last token is the
\* nearest such token, every token before it in the phrase is an article, an
\* adjective, a possessive-case or an adverb-like token, the token before the
\* phrase is none of these (a preposition or another token that is not
\* absorbed), no token of the phrase is a preposition and all of them precede
\* the verb phrase.
C24_SubjectFinding ==
  SubjectSought(result) =>
    LET tokens == result.tokens
        verb == index(tokens, result.verb_phrase.tokens[1])
        subject == result.subject.tokens
        n == Len(subject)
    IN  IF \A i \in 1..(verb - 1) : tokens[i].pos \notin { "noun", "pronoun" }
        THEN result.subject = NoPhrase
        ELSE /\ result.subject # NoPhrase
             /\ LET first == index(tokens, subject[1])
                    anchor == first + n - 1
                IN  /\ SubSeq(tokens, first, anchor) = subject
                    /\ anchor < verb
                    /\ tokens[anchor].pos \in { "noun", "pronoun" }
                    /\ head_token(result.subject) = tokens[anchor]
                    /\ \A i \in (anchor + 1)..(verb - 1) :
                         tokens[i].pos \notin { "noun", "pronoun" }
                    /\ \A i \in first..(anchor - 1) : Absorbable(tokens[i])
                    /\ first > 1 => ~Absorbable(tokens[first - 1])
                    /\ \A i \in 1..n : subject[i].pos # "preposition"
                    /\ \A i \in 1..n : subject[i].end <= result.verb_phrase.tokens[1].start

\* C24 happens: a returned subject of an article, an adverb, an adjective and
\* a noun that stops at the preposition before it
C24_Witness ==
  /\ pc = "returned"
  /\ SubjectSought(result)
  /\ result.subject # NoPhrase
  /\ Len(result.subject.tokens) = 4
  /\ LET first == index(result.tokens, result.subject.tokens[1])
     IN  first > 1 /\ result.tokens[first - 1].pos = "preposition"

\* the word satisfies the k-th rule of the classifier, the rules counted in the
\* order punctuation, article, possessive, personal pronoun, demonstrative
\* pronoun, relative pronoun, conjunction, preposition, interjection, verb,
\* adverb, common adjective, common noun, adjective suffix, default noun
RuleSatisfied(k, word) ==
  LET lemma == Lower(word)
  IN  CASE k = 1 -> Len(word) = 1 /\ word \in { ".", ",", ";", ":", "!", "?", "(", ")" }
        [] k = 2 -> lemma \in DEFAULT_ARTICLES
        [] k = 3 -> lemma \in POSSESSIVE_PRONOUNS \/ strip_possessive(lemma)[2]
        [] k = 4 -> lemma \in PERSONAL_PRONOUNS
        [] k = 5 -> lemma \in DEMONSTRATIVE_PRONOUNS
        [] k = 6 -> lemma \in RELATIVE_PRONOUNS
        [] k = 7 -> lemma \in COORDINATING_CONJUNCTIONS \cup SUBORDINATING_CONJUNCTIONS
        [] k = 8 -> lemma \in PREPOSITIONS
        [] k = 9 -> lemma \in INTERJECTIONS
        [] k = 10 -> is_verb(lemma)
        [] k = 11 -> lemma \in ADVERBS \/ EndsWith(lemma, "ly")
        [] k = 12 -> lemma \in COMMON_ADJECTIVES
        [] k = 13 -> lemma \in COMMON_NOUNS
        [] k = 14 -> EndsWithAny(lemma, ADJECTIVE_SUFFIX_PATTERN(package))
        [] k = 15 -> TRUE

\* the earliest rule the word satisfies
FirstRule(word) == CHOOSE k \in 1..15 : RuleSatisfied(k, word) /\ \A j \in 1..(k - 1) : ~RuleSatisfied(j, word)

\* the token has the part of speech and the features that the k-th rule gives
TokenOfRule(k, token) ==
  CASE k = 1 -> token.pos = "punctuation"
    [] k = 2 -> token.pos = "article" /\ "definite" \in DOMAIN token.features
    [] k = 3 -> token.pos \in { "pronoun", "noun" } /\ token.case = "possessive"
    [] k = 4 -> token.pos = "pronoun" /\ Get(token.features, "pronoun_type") = "personal"
    [] k = 5 -> token.pos = "pronoun" /\ Get(token.features, "pronoun_type") = "demonstrative"
    [] k = 6 -> token.pos = "pronoun" /\ Get(token.features, "pronoun_type") = "relative"
    [] k = 7 -> token.pos = "conjunction"
    [] k = 8 -> token.pos = "preposition"
    [] k = 9 -> token.pos = "interjection"
    [] k = 10 -> token.pos = "verb"
    [] k = 11 -> token.pos = "adverb"
    [] k \in { 12, 14 } -> token.pos = "adjective"
    [] k \in { 13, 15 } -> token.pos = "noun" /\ token.case # "possessive"

\* C25: classification is first-match-wins over the fixed rule order: every
\* token of a result has the part of speech and the features of the earliest
\* rule that its word satisfies.
C25_FirstMatchWins ==
  result # NoResult =>
    \A i \in 1..Len(result.tokens) :
      TokenOfRule(FirstRule(result.tokens[i].text), result.tokens[i])

\* the words before which an ambiguous word is a noun
TriggerSet(lemma) ==
  IF lemma = "work"
  THEN DETERMINER_CONTEXTS \cup { "hard", "good", "bad", "great", "important", "difficult", "easy" }
  ELSE DETERMINER_CONTEXTS

\* C26: ambiguous-word disambiguation through the parse pipeline: a token of a
\* result whose word is "like", "work" or "wrong" is a NOUN if and only if the
\* word just before it in the sentence is in the trigger set of the word.
C26_AmbiguousWords ==
  result # NoResult =>
    \A i \in 1..Len(result.tokens) :
      result.tokens[i].lemma \in { "like", "work", "wrong" } =>
        ( result.tokens[i].pos = "noun" <=>
            /\ i > 1
            /\ Lower(result.tokens[i - 1].text) \in TriggerSet(result.tokens[i].lemma) )

C28_PunctuationTokens ==
  result # NoResult =>
    \A i \in 1..Len(result.tokens) :
      result.tokens[i].text \in PunctChars => result.tokens[i].pos = "punctuation"

\* the punctuation check is enabled
PunctuationEnabled == config.enforce_punctuation_rules /\ config.enforce_period_rules

\* a step of the punctuation validator, enabled, on a returned result with
\* tokens: the step that ends the validation and is not the orthography
\* validator's
PunctuationStep ==
  /\ pc = "returned"
  /\ pc' = "validated"
  /\ PunctuationEnabled
  /\ result.tokens # << >>
  /\ "PERIOD_RULE" \in DOMAIN result'.rule_checks

\* the flags of rule PERIOD_RULE in r
PeriodFlags(r) == { k \in 1..Len(r.flags) : r.flags[k].rule = "PERIOD_RULE" }

\* what the punctuation validator leaves: no PERIOD_RULE flag when the last
\* token is a sentence-ending mark, otherwise one, of zero width, at the end
\* of the last token of the sentence
PeriodOutcome ==
  LET last == result.tokens[Len(result.tokens)]
  IN  IF last.text \in { ".", "!", "?" }
      THEN PeriodFlags(result') = { }
      ELSE /\ Cardinality(PeriodFlags(result')) = 1
           /\ \A k \in PeriodFlags(result') :
                result'.flags[k].span = [ start |-> last.end, end |-> last.end ]

\* every step of the enabled punctuation validator has that outcome
PeriodChecked == PunctuationStep => PeriodOutcome

\* every step from a returned result with tokens to a validated one, the
\* punctuation check enabled, is the orthography validator's or records the
\* period check
PeriodCheckRuns ==
  /\ pc = "returned" /\ pc' = "validated"
  /\ PunctuationEnabled /\ result.tokens # << >>
  => \/ "PERIOD_RULE" \in DOMAIN result'.rule_checks
     \/ result' = ortho_validate(config, result)

\* C29: punctuation rule: whenever the punctuation check is enabled, the
\* punctuation validator gives a parsed sentence whose last token is not ".",
\* "!" or "?" a PERIOD_RULE flag of zero width at the end of the sentence's last
\* token, and a sentence that ends in such a mark no PERIOD_RULE flag.
C29_PeriodRule == [][PeriodChecked]_vars /\ [][PeriodCheckRuns]_vars

\* C29 happens: the punctuation validator has flagged a sentence without a
\* final mark, after its last token
C29_Witness ==
  /\ pc = "validated"
  /\ PunctuationEnabled
  /\ result.tokens # << >>
  /\ result.tokens[Len(result.tokens)].pos # "punctuation"
  /\ \E k \in PeriodFlags(result) :
       /\ result.flags[k].span.start = result.flags[k].span.end
       /\ result.flags[k].span.end = Len(sentence)

\* validate has run through on the result
AfterValidation ==
  /\ pc \in { "returned", "validated" }
  /\ trace # << >>
  /\ trace[Len(trace)] = "validate"

\* C30: rule-check map and flag list agree: after validation, for every rule
\* id, the rule-check entry of the id is recorded false if and only if the
\* result holds a flag of that id.
C30_ChecksAgreeWithFlags ==
  AfterValidation =>
    \A rule \in RuleID :
      ( rule \in DOMAIN result.rule_checks /\ ~result.rule_checks[rule] )
        <=> HasFlag(result, rule)

====
